----------------------------- MODULE ServerProofs -----------------------------
(***************************************************************************)
(* Theorems about what the threads and processes of the server share:      *)
(* users, secret files, the worker pool and the failed logins, for every   *)
(* number of them.                                                         *)
(***************************************************************************)
EXTENDS UserAdmin, LoginThrottle, SecretFile, WorkerPool, FiniteSetTheorems, TLAPS

----------------------------------------------------------------------------
(* Users: UserAdmin *)

Users == [name : Names, role : Roles] \cup {Nobody}
Requests == {Idle} \cup
            [kind : {"request"}, stage : {"fetch", "count", "write"}, op : Operations, seen : Users]

\* Ids above last have not been handed out: to no row and to no session.
Typed ==
    /\ users \in [Ids -> Users] /\ last \in Nat /\ up \in BOOLEAN
    /\ session \in [Clients -> [id : Nat, name : Names \cup {"none"}]]
    /\ request \in [Clients -> Requests]
    /\ \A u \in Rows : u <= last
    /\ \A c \in Clients : session[c].id <= last

LEMMA IdFacts == Ids \subseteq Nat \ {0} /\ Cardinality(Ids) \in Nat
BY UserAdminAssumption, FS_CardinalityType

\* A request that has begun has its operation.
LEMMA RequestFacts ==
    ASSUME Typed, NEW c \in Clients, request[c] # Idle
    PROVE  /\ request[c].op \in Operations /\ request[c].seen \in Users
           /\ request[c].stage \in {"fetch", "count", "write"}
BY DEF Typed, Requests

LEMMA OperationFacts ==
    ASSUME NEW op \in Operations
    PROVE  /\ op.kind \in {"create", "role", "delete"}
           /\ op.kind = "create" => op.name \in Names /\ op.role \in Roles
           /\ op.kind = "role" => op.user \in Ids /\ op.role \in Roles
           /\ op.kind = "delete" => op.user \in Ids
BY DEF Operations

\* Going to another step keeps the type of the requests, and so does ending.
LEMMA MoveType ==
    ASSUME Typed, NEW c \in Clients, request[c] # Idle, NEW seen \in Users,
           NEW step \in {"fetch", "count", "write"}, Move(c, step, seen) \/ End(c)
    PROVE  request' \in [Clients -> Requests]
<1>1. At(step, request[c].op, seen) \in Requests
  BY RequestFacts DEF At, Requests
<1> QED
  BY <1>1 DEF Move, End, Typed, Requests

\* A new row is that of a new id.
LEMMA InsertType ==
    ASSUME Typed, NEW name \in Names, NEW role \in Roles, Insert(name, role)
    PROVE  /\ users' \in [Ids -> Users] /\ last' = last + 1 /\ last' \in Ids
           /\ \A u \in Ids : u # last' => users'[u] = users[u]
           /\ users'[last'] = [name |-> name, role |-> role]
           /\ last' \notin Rows
           /\ \A u \in Rows' : u <= last'
<1>1. /\ last' = last + 1 /\ last' \in Ids /\ last \in Nat
      /\ users' = [users EXCEPT ![last'] = [name |-> name, role |-> role]]
  BY DEF Insert, Highest, Typed
<1>2. last' \notin Rows
  BY <1>1 DEF Typed
<1>3. \A u \in Rows' : u <= last'
  <2> SUFFICES ASSUME NEW u \in Rows', u # last' PROVE u <= last'
    BY <1>1
  <2>1. u \in Rows /\ u \in Nat
    BY <1>1, IdFacts DEF Rows, Typed
  <2> QED
    BY <1>1, <2>1 DEF Typed
<1> QED
  BY <1>1, <1>2, <1>3 DEF Typed, Users

LEMMA TypedInit == Init => Typed
<1> SUFFICES ASSUME Init PROVE Typed
  OBVIOUS
<1>1. users \in [Ids -> Users] /\ request \in [Clients -> Requests] /\ Rows = {}
  BY DEF Init, Users, Requests, Rows
<1>2. session \in [Clients -> [id : Nat, name : Names \cup {"none"}]]
  BY DEF Init, LoggedOut
<1>3. \A c \in Clients : session[c].id = 0
  BY DEF Init, LoggedOut
<1>4. last = 0 /\ up = FALSE
  BY DEF Init
<1>5. /\ \A u \in Rows : u <= last
      /\ \A c \in Clients : session[c].id <= last
  BY <1>1, <1>3, <1>4
<1> QED
  BY <1>1, <1>2, <1>4, <1>5 DEF Typed

LEMMA TypedNext == Typed /\ [Next]_vars => Typed'
<1> SUFFICES ASSUME Typed, [Next]_vars PROVE Typed'
  OBVIOUS
<1> USE IdFacts
<1>1. ASSUME NEW c \in Clients, Login(c) PROVE Typed'
  <2>1. PICK u \in Rows : session' = [session EXCEPT ![c] = [id |-> u, name |-> users[u].name]]
    BY <1>1 DEF Login
  <2>2. u \in Nat /\ u <= last /\ users[u].name \in Names
    BY DEF Typed, Rows, Users
  <2> QED
    BY <1>1, <2>1, <2>2 DEF Login, Typed, Rows
<1>2. ASSUME NEW c \in Clients, Logout(c) PROVE Typed'
  BY <1>2 DEF Logout, Typed, LoggedOut, Rows
<1>3. ASSUME NEW c \in Clients, Begin(c) PROVE Typed'
  <2>1. \A op \in Operations : At("fetch", op, Nobody) \in Requests
    BY DEF At, Requests, Users
  <2> QED
    BY <1>3, <2>1 DEF Begin, Typed, Rows
<1>4. ASSUME NEW c \in Clients, Fetch(c) PROVE Typed'
  <2>1. request[c] # Idle /\ Nobody \in Users
    BY <1>4 DEF Fetch, In, Users
  <2>2. request[c].op.kind # "create" => request[c].op.user \in Ids
    BY <2>1, RequestFacts, OperationFacts
  <2>3. request' \in [Clients -> Requests]
    BY <1>4, <2>1, <2>2, MoveType DEF Fetch, Typed
  <2> QED
    BY <1>4, <2>3 DEF Fetch, Typed, Rows
<1>5. ASSUME NEW c \in Clients, Count(c) PROVE Typed'
  <2>1. request[c] # Idle
    BY <1>5 DEF Count, In
  <2>2. request' \in [Clients -> Requests]
    BY <1>5, <2>1, MoveType, RequestFacts DEF Count
  <2> QED
    BY <1>5, <2>2 DEF Count, Typed, Rows
<1>6. ASSUME NEW c \in Clients, Write(c) PROVE Typed'
  <2> DEFINE op == request[c].op
  <2>1. request[c] # Idle /\ op \in Operations
    BY <1>6, RequestFacts DEF Write, In
  <2>2. request' \in [Clients -> Requests]
    BY <1>6 DEF Write, End, Typed, Requests
  <2>3. CASE op.kind = "create" /\ Insert(op.name, op.role)
    <3>1. /\ users' \in [Ids -> Users] /\ last' = last + 1 /\ \A u \in Rows' : u <= last'
      BY <2>1, <2>3, OperationFacts, InsertType
    <3>2. session' = session /\ up' = up
      BY <1>6 DEF Write
    <3> QED
      BY <2>2, <3>1, <3>2 DEF Typed
  <2>4. CASE UNCHANGED <<users, last>>
    BY <1>6, <2>2, <2>4 DEF Write, Typed, Rows
  <2>5. CASE op.kind = "role" /\ UNCHANGED last
             /\ users' = [u \in Ids |-> IF u = op.user /\ u \in Rows
                                        THEN [users[u] EXCEPT !.role = op.role] ELSE users[u]]
    <3>1. op.role \in Roles
      BY <2>1, <2>5, OperationFacts
    <3>2. \A u \in Rows : [users[u] EXCEPT !.role = op.role] \in Users
      BY <3>1 DEF Typed, Rows, Users
    <3>3. users' \in [Ids -> Users] /\ Rows' \subseteq Rows
      BY <2>5, <3>2 DEF Typed, Rows
    <3> QED
      BY <1>6, <2>2, <2>5, <3>3 DEF Write, Typed
  <2>6. CASE op.kind = "delete" /\ UNCHANGED last /\ users' = [users EXCEPT ![op.user] = Nobody]
    <3>1. users' \in [Ids -> Users] /\ Rows' \subseteq Rows
      BY <2>6 DEF Typed, Rows, Users
    <3> QED
      BY <1>6, <2>2, <2>6, <3>1 DEF Write, Typed
  <2> QED
    BY <1>6, <2>3, <2>4, <2>5, <2>6 DEF Write
<1>7. CASE Crash
  BY <1>7 DEF Crash, Typed, Requests, Rows
<1>8. CASE Start
  <2>1. CASE Insert(Admin, "admin")
    <3>1. /\ users' \in [Ids -> Users] /\ last' = last + 1 /\ \A u \in Rows' : u <= last'
      BY <2>1, InsertType, UserAdminAssumption DEF Roles
    <3>2. session' = session /\ request' = request /\ up' \in BOOLEAN
      BY <1>8 DEF Start
    <3> QED
      BY <3>1, <3>2 DEF Typed
  <2>2. CASE UNCHANGED <<users, last>>
    BY <1>8, <2>2 DEF Start, Typed, Rows
  <2> QED BY <1>8, <2>1, <2>2 DEF Start
<1>9. CASE UNCHANGED vars
  BY <1>9 DEF vars, Typed, Rows
<1> QED
  BY <1>1, <1>2, <1>3, <1>4, <1>5, <1>6, <1>7, <1>8, <1>9 DEF Next

----------------------------------------------------------------------------
(* Names and sessions, however requests overlap. *)

Identities == Typed /\ NamesDiffer /\ SessionIsItsUsers

\* The row of a user who has one has a role and, for good, its name.
LEMMA RowFacts ==
    ASSUME Typed, NEW u \in Rows
    PROVE  u \in Ids /\ u \in Nat /\ u <= last /\ users[u] \in [name : Names, role : Roles]
BY IdFacts DEF Typed, Rows, Users

\* Whoever has a role has a row, and the other way round.
LEMMA RoleFacts ==
    ASSUME Typed, NEW u \in Nat
    PROVE  RoleOf(u) # "none" <=> u \in Rows
BY DEF Typed, Rows, Users, RoleOf, Nobody, Roles

\* Rows that keep their names keep the identities, and so does a new row with
\* a free name.
LEMMA IdentitiesKept ==
    ASSUME Identities, Typed', UNCHANGED session,
           \A u \in Rows' : u \in Rows /\ users'[u].name = users[u].name
    PROVE  NamesDiffer' /\ SessionIsItsUsers'
<1>1. NamesDiffer'
  BY DEF Identities, NamesDiffer
<1>2. ASSUME NEW c \in Clients, RoleOf(session[c].id)' # "none"
      PROVE  users'[session[c].id].name = session[c].name
  <2>1. session[c].id \in Nat
    BY DEF Identities, Typed
  <2>2. session[c].id \in Rows'
    BY <1>2, <2>1 DEF Typed, Rows, Users, RoleOf, Nobody, Roles
  <2> QED
    BY <2>1, <2>2, RoleFacts DEF Identities, SessionIsItsUsers
<1> QED
  BY <1>1, <1>2 DEF SessionIsItsUsers

LEMMA IdentitiesInsert ==
    ASSUME Identities, Typed', UNCHANGED session,
           NEW name \in Names, NEW role \in Roles, Insert(name, role), ~Known(name)
    PROVE  NamesDiffer' /\ SessionIsItsUsers'
<1>1. /\ last' = last + 1 /\ last' \notin Rows
      /\ \A u \in Ids : u # last' => users'[u] = users[u]
      /\ users'[last'] = [name |-> name, role |-> role]
  BY InsertType DEF Identities
<1>2. \A u \in Rows' : u # last' => u \in Rows /\ users'[u].name # name
  BY <1>1 DEF Known, Rows
<1>3. NamesDiffer'
  BY <1>1, <1>2 DEF Identities, NamesDiffer, Rows
<1>4. ASSUME NEW c \in Clients, RoleOf(session[c].id)' # "none"
      PROVE  users'[session[c].id].name = session[c].name
  <2>1. session[c].id \in Nat /\ session[c].id <= last /\ last \in Nat
    BY DEF Identities, Typed
  <2>2. session[c].id \in Ids /\ session[c].id # last'
    BY <1>1, <1>4, <2>1 DEF RoleOf
  <2>3. users'[session[c].id] = users[session[c].id]
    BY <1>1, <2>2
  <2>4. RoleOf(session[c].id) # "none"
    BY <1>4, <2>2, <2>3 DEF RoleOf
  <2> QED
    BY <2>3, <2>4 DEF Identities, SessionIsItsUsers
<1> QED
  BY <1>3, <1>4 DEF SessionIsItsUsers

LEMMA IdentitiesNext == Identities /\ [Next]_vars => Identities'
<1> SUFFICES ASSUME Identities, [Next]_vars PROVE NamesDiffer' /\ SessionIsItsUsers'
  BY TypedNext DEF Identities
<1>1. Typed /\ Typed'
  BY TypedNext DEF Identities
<1>2. ASSUME NEW c \in Clients, Login(c) PROVE NamesDiffer' /\ SessionIsItsUsers'
  <2>1. PICK u \in Rows : session' = [session EXCEPT ![c] = [id |-> u, name |-> users[u].name]]
    BY <1>2 DEF Login
  <2>2. users' = users
    BY <1>2 DEF Login
  <2>3. session \in [Clients -> [id : Nat, name : Names \cup {"none"}]]
    BY <1>1 DEF Typed
  <2> QED
    BY <2>1, <2>2, <2>3 DEF Identities, NamesDiffer, SessionIsItsUsers, Rows, RoleOf
<1>3. ASSUME NEW c \in Clients, Logout(c) PROVE NamesDiffer' /\ SessionIsItsUsers'
  <2>1. users' = users /\ session' = [session EXCEPT ![c] = LoggedOut]
    BY <1>3 DEF Logout
  <2>2. RoleOf(0) = "none"
    BY IdFacts DEF RoleOf
  <2>3. session \in [Clients -> [id : Nat, name : Names \cup {"none"}]]
    BY <1>1 DEF Typed
  <2> QED
    BY <2>1, <2>2, <2>3 DEF Identities, NamesDiffer, SessionIsItsUsers, Rows, RoleOf, LoggedOut
<1>4. CASE UNCHANGED <<users, session>>
  BY <1>4 DEF Identities, NamesDiffer, SessionIsItsUsers, Rows, RoleOf
<1>5. ASSUME NEW c \in Clients, Write(c) PROVE NamesDiffer' /\ SessionIsItsUsers'
  <2> DEFINE op == request[c].op
  <2>1. session' = session /\ op \in Operations
    BY <1>1, <1>5, RequestFacts DEF Write, In
  <2>2. CASE op.kind = "create" /\ Unique(op.name) /\ Insert(op.name, op.role)
    BY <1>1, <2>1, <2>2, OperationFacts, IdentitiesInsert DEF Unique
  <2>3. CASE UNCHANGED users
    BY <2>1, <2>3, <1>4
  <2>4. CASE users' = [u \in Ids |-> IF u = op.user /\ u \in Rows
                                     THEN [users[u] EXCEPT !.role = op.role] ELSE users[u]]
    <3>1. \A u \in Rows' : u \in Rows
      BY <2>4 DEF Rows
    <3>2. \A u \in Rows : users'[u].name = users[u].name
      BY <1>1, <2>4, RowFacts
    <3> QED
      BY <1>1, <2>1, <3>1, <3>2, IdentitiesKept
  <2>5. CASE users' = [users EXCEPT ![op.user] = Nobody]
    <3>1. \A u \in Rows' : u \in Rows /\ users'[u] = users[u]
      BY <1>1, <2>5 DEF Rows, Typed
    <3> QED
      BY <1>1, <2>1, <3>1, IdentitiesKept
  <2> QED
    BY <1>5, <2>2, <2>3, <2>4, <2>5 DEF Write
<1>6. CASE Start
  <2>1. session' = session
    BY <1>6 DEF Start
  <2>2. CASE Rows = {} /\ Insert(Admin, "admin")
    BY <1>1, <2>1, <2>2, IdentitiesInsert, UserAdminAssumption DEF Known, Roles
  <2> QED
    BY <1>4, <1>6, <2>1, <2>2 DEF Start
<1> QED
  BY <1>2, <1>3, <1>4, <1>5, <1>6 DEF Next, Begin, Fetch, Count, Crash, vars

\* No two users have one name, whatever requests overlap: Spec => []NamesDiffer.
THEOREM NamesAlwaysDiffer == Spec => []NamesDiffer
<1>1. Init => Identities
  BY TypedInit, IdFacts DEF Init, Identities, NamesDiffer, SessionIsItsUsers, Rows, RoleOf, LoggedOut
<1>2. Identities => NamesDiffer
  BY DEF Identities
<1> QED
  BY <1>1, <1>2, IdentitiesNext, PTL DEF Spec

\* A session is never that of a user created after the one who logged in:
\* Spec => []SessionIsItsUsers.
THEOREM SessionsKeepTheirUser == Spec => []SessionIsItsUsers
<1>1. Init => Identities
  BY TypedInit, IdFacts DEF Init, Identities, NamesDiffer, SessionIsItsUsers, Rows, RoleOf, LoggedOut
<1>2. Identities => SessionIsItsUsers
  BY DEF Identities
<1> QED
  BY <1>1, <1>2, IdentitiesNext, PTL DEF Spec

----------------------------------------------------------------------------
(* Changes that come one after the other leave an administrator. *)

Admins == {u \in Rows : users[u].role = "admin"}

\* What the count of the administrators says of their set.
LEMMA CountFacts ==
    /\ CountAdmins > 0 <=> Admins # {}
    /\ \A u : CountAdmins > 1 => Admins \ {u} # {}
<1>1. IsFiniteSet(Admins)
  BY UserAdminAssumption, FS_Subset DEF Admins, Rows
<1>2. CountAdmins = Cardinality(Admins) /\ CountAdmins \in Nat
  BY <1>1, FS_CardinalityType DEF CountAdmins, Admins
<1>3. CountAdmins = 0 <=> Admins = {}
  BY <1>1, <1>2, FS_EmptySet
<1>4. ASSUME NEW u, Admins \ {u} = {} PROVE CountAdmins <= 1
  <2>1. Admins = {} \/ Admins = {u}
    BY <1>4
  <2>2. Admins = {u} => Cardinality(Admins) = 1
    BY FS_Singleton
  <2> QED
    BY <1>2, <1>3, <2>1, <2>2
<1> QED
  BY <1>2, <1>3, <1>4

Busy(c) == request[c] # Idle
OneChanges == \A c, d \in Clients : Changing(c) /\ Changing(d) => c = d

\* What a request has fetched is still so, and what it has counted is enough.
SeenOf(c) ==
    Changing(c) /\ request[c].stage # "fetch" =>
        request[c].op.user \in Rows /\ users[request[c].op.user] = request[c].seen
GuardOf(c) == Changing(c) /\ request[c].stage = "write" => Guarded(c)
SeenIsCurrent == \A c \in Clients : SeenOf(c)
WritesAreGuarded == \A c \in Clients : GuardOf(c)

\* The first start makes an administrator, and nobody works on a stopped server.
SomeAdmin ==
    /\ up \/ Rows # {} => Admins # {}
    /\ ~up => \A c \in Clients : ~Busy(c)

AdminInv == Typed /\ OneChanges /\ SeenIsCurrent /\ WritesAreGuarded /\ SomeAdmin

\* The write of a request leaves an administrator.
LEMMA WriteLeavesAdmin ==
    ASSUME AdminInv, NEW c \in Clients, Write(c)
    PROVE  Admins' # {}
<1> DEFINE op == request[c].op
<1>1. /\ Typed /\ Busy(c) /\ up /\ request[c].stage = "write" /\ op \in Operations
      /\ Admins # {}
  BY RequestFacts DEF Write, In, AdminInv, SomeAdmin, Busy
<1>2. ASSUME NEW u, Admins \ {u} \subseteq Admins', u \in Admins' \/ u \notin Admins \/ CountAdmins > 1
      PROVE  Admins' # {}
  BY <1>1, <1>2, CountFacts
<1>3. CASE op.kind = "create" /\ Insert(op.name, op.role)
  <2>1. /\ last' \notin Rows /\ \A u \in Ids : u # last' => users'[u] = users[u]
    BY <1>1, <1>3, OperationFacts, InsertType
  <2>2. Admins \subseteq Admins'
    BY <2>1 DEF Admins, Rows
  <2> QED BY <1>1, <2>2
<1>4. CASE UNCHANGED users
  BY <1>1, <1>4 DEF Admins, Rows
<1>5. op.kind # "create" => users[op.user] = request[c].seen /\ Guarded(c)
  BY <1>1 DEF AdminInv, SeenIsCurrent, WritesAreGuarded, SeenOf, GuardOf, Changing, Busy
<1>6. CASE /\ op.kind = "role"
           /\ users' = [u \in Ids |-> IF u = op.user /\ u \in Rows
                                      THEN [users[u] EXCEPT !.role = op.role] ELSE users[u]]
  <2>1. Admins \ {op.user} \subseteq Admins'
    BY <1>1, <1>6 DEF Admins, Rows
  <2>2. CASE op.user \in Admins /\ op.role = "admin"
    <3>1. users'[op.user] = [users[op.user] EXCEPT !.role = "admin"] /\ op.user \in Ids
      BY <1>6, <2>2 DEF Admins, Rows
    <3>2. users[op.user] \in [name : Names, role : Roles]
      BY <1>1, <2>2, RowFacts DEF Admins
    <3>3. users'[op.user].role = "admin"
      BY <3>1, <3>2
    <3>4. users'[op.user] # Nobody
      BY <3>3 DEF Nobody
    <3>5. op.user \in Admins'
      BY <3>1, <3>3, <3>4 DEF Admins, Rows
    <3> QED BY <3>5
  <2>3. CASE op.user \in Admins /\ op.role # "admin"
    <3>1. CountAdmins > 1
      BY <1>5, <1>6, <2>3 DEF Guarded, Removes, Admins
    <3> QED BY <1>2, <2>1, <3>1
  <2>4. CASE op.user \notin Admins
    BY <1>2, <2>1, <2>4
  <2> QED BY <2>2, <2>3, <2>4
<1>7. CASE op.kind = "delete" /\ users' = [users EXCEPT ![op.user] = Nobody]
  <2>1. Admins \ {op.user} \subseteq Admins'
    BY <1>1, <1>7 DEF Admins, Rows, Typed
  <2>2. op.user \in Admins => CountAdmins > 1
    BY <1>5, <1>7 DEF Guarded, Removes, Admins
  <2> QED BY <1>2, <2>1, <2>2
<1> QED
  BY <1>3, <1>4, <1>6, <1>7 DEF Write

\* A new account lowers no count and touches no row.
LEMMA MoreAdmins ==
    ASSUME Typed, \A u \in Rows : users'[u] = users[u]
    PROVE  Rows \subseteq Rows' /\ CountAdmins' >= CountAdmins
<1>1. Rows \subseteq Rows' /\ Admins \subseteq Admins'
  BY DEF Rows, Admins
<1>2. IsFiniteSet(Admins')
  BY UserAdminAssumption, FS_Subset DEF Admins, Rows
<1>3. Cardinality(Admins) <= Cardinality(Admins')
  BY <1>1, <1>2, FS_Subset
<1>4. Cardinality(Admins) \in Nat /\ Cardinality(Admins') \in Nat
  BY <1>1, <1>2, FS_Subset, FS_CardinalityType
<1>5. CountAdmins = Cardinality(Admins) /\ CountAdmins' = Cardinality(Admins')
  BY DEF CountAdmins, Admins
<1> QED BY <1>1, <1>3, <1>4, <1>5

\* A request that a step leaves alone keeps what it knows, if no row changes.
LEMMA OthersKeep ==
    ASSUME AdminInv, NEW d \in Clients, request'[d] = request[d], \A u \in Rows : users'[u] = users[u]
    PROVE  SeenOf(d)' /\ GuardOf(d)'
<1>1. Typed /\ SeenOf(d) /\ GuardOf(d)
  BY DEF AdminInv, SeenIsCurrent, WritesAreGuarded
<1>2. Rows \subseteq Rows' /\ CountAdmins' >= CountAdmins
  BY <1>1, MoreAdmins
<1>3. CountAdmins \in Nat /\ CountAdmins' \in Nat
  <2>1. IsFiniteSet(Admins) /\ IsFiniteSet(Admins')
    BY UserAdminAssumption, FS_Subset DEF Admins, Rows
  <2> QED BY <2>1, FS_CardinalityType DEF CountAdmins, Admins
<1>4. SeenOf(d)'
  BY <1>1, <1>2 DEF SeenOf, Changing
<1>5. GuardOf(d)'
  BY <1>1, <1>2, <1>3 DEF GuardOf, Changing, Guarded, Removes
<1> QED BY <1>4, <1>5

LEMMA AdminInvNext ==
    ASSUME ~Together, AdminInv, [Next]_vars
    PROVE  OneChanges' /\ SeenIsCurrent' /\ WritesAreGuarded' /\ SomeAdmin'
<1> DEFINE Goal == OneChanges' /\ SeenIsCurrent' /\ WritesAreGuarded' /\ SomeAdmin'
<1>1. Typed /\ OneChanges /\ SeenIsCurrent /\ WritesAreGuarded /\ SomeAdmin
  BY DEF AdminInv
<1>2. request \in [Clients -> Requests]
  BY <1>1 DEF Typed
<1>3. CASE UNCHANGED <<users, request, up>>
  <2>1. SomeAdmin' /\ OneChanges'
    BY <1>1, <1>3 DEF SomeAdmin, OneChanges, Changing, Busy, Rows, Admins
  <2>2. \A d \in Clients : SeenOf(d)' /\ GuardOf(d)'
    BY <1>3, OthersKeep
  <2> QED BY <2>1, <2>2 DEF SeenIsCurrent, WritesAreGuarded
\* The request of one client goes on, while no row changes.
<1>4. ASSUME NEW c \in Clients, up, UNCHANGED up, \A u \in Rows : users'[u] = users[u],
             \A d \in Clients : d # c => request'[d] = request[d],
             Changing(c)' => Changing(c) \/ \A d \in Clients : ~Changing(d),
             SeenOf(c)', GuardOf(c)', Admins' # {}
      PROVE  Goal
  <2>1. \A d \in Clients : d # c => (Changing(d)' <=> Changing(d))
    BY <1>4 DEF Changing
  <2>2. OneChanges'
    BY <1>1, <1>4, <2>1 DEF OneChanges
  <2>3. \A d \in Clients : SeenOf(d)' /\ GuardOf(d)'
    BY <1>4, OthersKeep
  <2>4. SomeAdmin'
    BY <1>4 DEF SomeAdmin
  <2> QED BY <2>2, <2>3, <2>4 DEF SeenIsCurrent, WritesAreGuarded
<1>5. ASSUME UNCHANGED users, up PROVE Admins' # {}
  BY <1>1, <1>5 DEF SomeAdmin, Admins, Rows
<1>6. ASSUME NEW c \in Clients, Begin(c) PROVE Goal
  <2>1. PICK op \in Operations :
           /\ op.kind = "create" \/ \A d \in Clients : ~Changing(d)
           /\ request' = [request EXCEPT ![c] = At("fetch", op, Nobody)]
    BY <1>6 DEF Begin
  <2>2. request'[c].stage = "fetch" /\ request'[c].op = op /\ \A d \in Clients : d # c => request'[d] = request[d]
    BY <1>2, <2>1 DEF At
  <2>3. SeenOf(c)' /\ GuardOf(c)'
    BY <2>2 DEF SeenOf, GuardOf
  <2>4. Changing(c)' => Changing(c) \/ \A d \in Clients : ~Changing(d)
    BY <2>1, <2>2 DEF Changing
  <2> QED
    BY <1>4, <1>5, <1>6, <2>2, <2>3, <2>4 DEF Begin
<1>7. ASSUME NEW c \in Clients, Fetch(c) \/ Count(c) \/ Write(c)
      PROVE  /\ up /\ Busy(c) /\ up' = up /\ request[c].op \in Operations /\ Admins # {}
  BY <1>1, <1>7, RequestFacts DEF Fetch, Count, Write, In, Busy, SomeAdmin
<1>8. ASSUME NEW c \in Clients, End(c)
      PROVE  /\ ~Busy(c)' /\ ~Changing(c)' /\ SeenOf(c)' /\ GuardOf(c)'
             /\ \A d \in Clients : d # c => request'[d] = request[d]
  BY <1>2, <1>8 DEF End, Busy, Changing, SeenOf, GuardOf
<1>9. ASSUME NEW c \in Clients, NEW step, NEW seen, Move(c, step, seen)
      PROVE  /\ request'[c].stage = step /\ request'[c].seen = seen
             /\ request'[c].op = request[c].op
             /\ \A d \in Clients : d # c => request'[d] = request[d]
  BY <1>2, <1>9 DEF Move, At
<1>10. ASSUME NEW c \in Clients, Busy(c), NEW step, NEW seen, Move(c, step, seen)
       PROVE  Changing(c)' => Changing(c)
  BY <1>9, <1>10 DEF Changing, Busy
<1>11. ASSUME NEW c \in Clients, UNCHANGED <<users, up>>, End(c), up PROVE Goal
  BY <1>4, <1>5, <1>8, <1>11
<1>12. ASSUME NEW c \in Clients, Fetch(c) PROVE Goal
  <2> DEFINE op == request[c].op
  <2>1. UNCHANGED <<users, up>>
    BY <1>12 DEF Fetch
  <2>2. CASE End(c)
    BY <1>7, <1>11, <1>12, <2>1, <2>2
  <2>3. CASE op.kind = "create" /\ Move(c, "write", Nobody)
    <3>1. SeenOf(c)' /\ GuardOf(c)'
      BY <1>9, <2>3 DEF SeenOf, GuardOf, Changing
    <3> QED BY <1>4, <1>5, <1>7, <1>9, <1>10, <1>12, <2>1, <2>3, <3>1
  <2>4. CASE op.kind # "create" /\ op.user \in Rows /\ Move(c, "count", users[op.user])
    <3>1. Rows' = Rows
      BY <2>1 DEF Rows
    <3>2. SeenOf(c)' /\ GuardOf(c)'
      BY <1>9, <2>1, <2>4, <3>1 DEF SeenOf, GuardOf
    <3> QED BY <1>4, <1>5, <1>7, <1>9, <1>10, <1>12, <2>1, <2>4, <3>2
  <2> QED
    BY <1>12, <2>2, <2>3, <2>4 DEF Fetch
<1>13. ASSUME NEW c \in Clients, Count(c) PROVE Goal
  <2>1. UNCHANGED <<users, up>> /\ request[c].stage = "count" /\ Busy(c)
    BY <1>13 DEF Count, In, Busy
  <2>2. CASE End(c)
    BY <1>7, <1>11, <1>13, <2>1, <2>2
  <2>3. CASE Guarded(c) /\ Move(c, "write", request[c].seen)
    <3>1. Rows' = Rows /\ Guarded(c)'
      BY <1>9, <2>1, <2>3 DEF Guarded, Removes, CountAdmins, Rows
    <3>2. SeenOf(c)' /\ GuardOf(c)'
      BY <1>1, <1>9, <1>10, <2>1, <2>3, <3>1 DEF SeenIsCurrent, SeenOf, GuardOf
    <3> QED BY <1>4, <1>5, <1>7, <1>9, <1>10, <1>13, <2>1, <2>3, <3>2
  <2> QED
    BY <1>13, <2>2, <2>3 DEF Count
<1>14. ASSUME NEW c \in Clients, Write(c) PROVE Goal
  <2>1. Admins' # {} /\ End(c)
    BY <1>14, WriteLeavesAdmin DEF Write
  <2>2. CASE \A u \in Rows : users'[u] = users[u]
    BY <1>4, <1>7, <1>8, <1>14, <2>1, <2>2
  <2>3. CASE Changing(c)
    <3>1. \A d \in Clients : ~Changing(d)'
      BY <1>1, <1>8, <2>1, <2>3 DEF OneChanges, Changing
    <3> QED
      BY <1>7, <1>14, <2>1, <3>1 DEF OneChanges, SeenIsCurrent, WritesAreGuarded, SeenOf, GuardOf, SomeAdmin
  <2>4. ASSUME ~Changing(c) PROVE \A u \in Rows : users'[u] = users[u]
    <3>1. request[c].op.kind = "create"
      BY <1>7, <1>14, <2>4 DEF Changing, Busy
    <3>2. CASE Insert(request[c].op.name, request[c].op.role)
      BY <1>1, <1>7, <1>14, <3>1, <3>2, OperationFacts, InsertType DEF Rows
    <3> QED BY <1>14, <3>1, <3>2 DEF Write
  <2> QED BY <2>2, <2>3, <2>4
<1>15. ASSUME \A d \in Clients : ~Busy(d)' PROVE OneChanges' /\ SeenIsCurrent' /\ WritesAreGuarded'
  BY <1>15 DEF OneChanges, SeenIsCurrent, WritesAreGuarded, SeenOf, GuardOf, Changing, Busy
<1>16. CASE Crash
  <2>1. \A d \in Clients : ~Busy(d)'
    BY <1>16 DEF Crash, Busy
  <2> QED
    BY <1>1, <1>15, <1>16, <2>1 DEF Crash, SomeAdmin, Admins, Rows
<1>17. CASE Start
  <2>1. \A d \in Clients : ~Busy(d)'
    BY <1>1, <1>17 DEF Start, Busy, SomeAdmin
  <2>2. CASE Rows = {} /\ Insert(Admin, "admin")
    <3>1. last' \in Ids /\ users'[last'] = [name |-> Admin, role |-> "admin"]
      BY <1>1, <2>2, InsertType, UserAdminAssumption DEF Roles
    <3>2. last' \in Admins'
      BY <3>1 DEF Admins, Rows, Nobody
    <3> QED
      BY <1>15, <1>17, <2>1, <3>2 DEF Start, SomeAdmin
  <2>3. CASE Rows # {} /\ UNCHANGED users
    BY <1>1, <1>15, <2>1, <2>3 DEF SomeAdmin, Admins, Rows
  <2> QED
    BY <1>17, <2>2, <2>3 DEF Start
<1> QED
  BY <1>3, <1>6, <1>12, <1>13, <1>14, <1>16, <1>17 DEF Next, Login, Logout, vars

\* When no two requests that change or delete users overlap, a running server
\* always has someone who can administer its users: Spec => []AtLeastOneAdmin.
THEOREM AdministratorRemains == ~Together => (Spec => []AtLeastOneAdmin)
<1> SUFFICES ASSUME ~Together PROVE Spec => []AtLeastOneAdmin
  OBVIOUS
<1>1. Init => AdminInv
  <2> SUFFICES ASSUME Init PROVE AdminInv
    OBVIOUS
  <2>1. (\A c \in Clients : ~Busy(c)) /\ Rows = {} /\ ~up
    BY DEF Init, Busy, Rows
  <2> QED
    BY <2>1, TypedInit DEF AdminInv, OneChanges, SeenIsCurrent, WritesAreGuarded, SeenOf, GuardOf, Changing, Busy, SomeAdmin
<1>2. AdminInv /\ [Next]_vars => AdminInv'
  BY TypedNext, AdminInvNext DEF AdminInv
<1>3. AdminInv => AtLeastOneAdmin
  BY CountFacts DEF AdminInv, SomeAdmin, AtLeastOneAdmin
<1> QED
  BY <1>1, <1>2, <1>3, PTL DEF Spec

----------------------------------------------------------------------------
(* The files of secrets: SecretFile *)

Secrets == 1 .. MaxSecrets

\* Whoever is past the reading of the file has a secret in hand.
InHand ==
    /\ made \in 0 .. MaxSecrets /\ file \in 0 .. MaxSecrets + 1
    /\ stage \in [Processes -> {"off", "read", "open", "write", "on"}]
    /\ secret \in [Processes -> 0 .. MaxSecrets]
    /\ items \subseteq Secrets
    /\ \A p \in Processes : stage[p] \in {"open", "write", "on"} => secret[p] \in Secrets

LEMMA InHandInit == SecretInit => InHand
BY SecretFileAssumption DEF SecretInit, InHand, Missing

LEMMA InHandNext == InHand /\ [SecretNext]_secretVars => InHand'
<1> SUFFICES ASSUME InHand, [SecretNext]_secretVars PROVE InHand'
  OBVIOUS
<1> USE SecretFileAssumption DEF InHand, Secrets
<1>1. ASSUME NEW p \in Processes, LoadSecret(p) PROVE InHand'
  BY <1>1 DEF LoadSecret, Goes
<1>2. ASSUME NEW p \in Processes, Read(p) PROVE InHand'
  BY <1>2 DEF Read, Goes, Found, Missing, Empty
<1>3. ASSUME NEW p \in Processes, Open(p) PROVE InHand'
  BY <1>3 DEF Open, Goes, Empty
<1>4. ASSUME NEW p \in Processes, WriteText(p) PROVE InHand'
  BY <1>4 DEF WriteText, Goes
<1>5. ASSUME NEW p \in Processes, Encrypt(p) PROVE InHand'
  BY <1>5 DEF Encrypt
<1>6. ASSUME NEW p \in Processes, Stop(p) PROVE InHand'
  BY <1>6 DEF Stop, Missing
<1>7. CASE UNCHANGED secretVars
  BY <1>7 DEF secretVars
<1> QED
  BY <1>1, <1>2, <1>3, <1>4, <1>5, <1>6, <1>7 DEF SecretNext

\* Wherever processes are killed and however they overlap, nothing is encrypted
\* under what an empty key file would give: SecretSpec => []NoEmptyKey.
THEOREM EmptyFileIsNoKey == SecretSpec => []NoEmptyKey
<1>1. InHand => NoEmptyKey
  BY SecretFileAssumption DEF InHand, NoEmptyKey, Empty, Secrets
<1> QED
  BY <1>1, InHandInit, InHandNext, PTL DEF SecretSpec

----------------------------------------------------------------------------
(* Processes that start one after the other agree on the secret. *)

Starting(p) == stage[p] \in {"read", "open", "write"}

OneStarts == \A p, q \in Processes : Starting(p) /\ Starting(q) => p = q

\* As long as one process is making a secret, no other has one and nothing is
\* encrypted; from then on everyone's secret is that of the file.
Agreed ==
    /\ \A p \in Processes : stage[p] \in {"open", "write"} => ~Found(file)
    /\ \A p \in Processes : stage[p] = "on" => Found(file) /\ secret[p] = file
    /\ items # {} => Found(file) /\ items = {file}

SecretInv == InHand /\ OneStarts /\ Agreed

LEMMA AgreedNext ==
    ASSUME ~StartTogether, SecretInv, [SecretNext]_secretVars
    PROVE  OneStarts' /\ Agreed'
<1> USE SecretFileAssumption DEF SecretInv
<1>1. ASSUME NEW p \in Processes, LoadSecret(p) PROVE OneStarts' /\ Agreed'
  <2>1. OneStarts'
    BY <1>1 DEF LoadSecret, Goes, OneStarts, Starting, InHand
  <2>2. Agreed'
    BY <1>1 DEF LoadSecret, Goes, Agreed, InHand, Found
  <2> QED BY <2>1, <2>2
<1>2. ASSUME NEW p \in Processes, Read(p) PROVE OneStarts' /\ Agreed'
  <2>1. OneStarts'
    BY <1>2 DEF Read, Goes, OneStarts, Starting, InHand
  <2>2. Agreed'
    BY <1>2 DEF Read, Goes, Agreed, InHand, Found
  <2> QED BY <2>1, <2>2
<1>3. ASSUME NEW p \in Processes, Open(p) PROVE OneStarts' /\ Agreed'
  <2>1. OneStarts'
    BY <1>3 DEF Open, Goes, OneStarts, Starting, InHand
  <2>2. Agreed'
    BY <1>3 DEF Open, Goes, Agreed, InHand, Found, Empty
  <2> QED BY <2>1, <2>2
<1>4. ASSUME NEW p \in Processes, WriteText(p) PROVE OneStarts' /\ Agreed'
  <2>1. OneStarts'
    BY <1>4 DEF WriteText, Goes, OneStarts, Starting, InHand
  <2>2. secret[p] \in Secrets /\ Found(secret[p])
    BY <1>4 DEF WriteText, Goes, InHand, Found, Missing, Empty, Secrets
  <2>3. items = {} /\ \A q \in Processes : stage[q] # "on"
    BY <1>4 DEF WriteText, Goes, Agreed
  <2>4. \A q \in Processes : stage[q] \in {"open", "write"} => q = p
    BY <1>4 DEF WriteText, Goes, OneStarts, Starting
  <2>5. Agreed'
    BY <1>4, <2>2, <2>3, <2>4 DEF WriteText, Goes, Agreed, InHand, Found, Missing, Empty
  <2> QED BY <2>1, <2>5
<1>5. ASSUME NEW p \in Processes, Encrypt(p) PROVE OneStarts' /\ Agreed'
  BY <1>5 DEF Encrypt, OneStarts, Starting, Agreed, Found
<1>6. ASSUME NEW p \in Processes, Stop(p) PROVE OneStarts' /\ Agreed'
  BY <1>6 DEF Stop, OneStarts, Starting, Agreed, InHand, Found
<1>7. CASE UNCHANGED secretVars
  BY <1>7 DEF secretVars, OneStarts, Starting, Agreed, Found
<1> QED
  BY <1>1, <1>2, <1>3, <1>4, <1>5, <1>6, <1>7 DEF SecretNext

\* If processes start one after the other, though they may be killed anywhere,
\* whatever is encrypted stays readable: SecretSpec => []Readable.
THEOREM SecretsStayReadable == ~StartTogether => (SecretSpec => []Readable)
<1> SUFFICES ASSUME ~StartTogether PROVE SecretSpec => []Readable
  OBVIOUS
<1>1. SecretInit => SecretInv
  BY InHandInit DEF SecretInit, SecretInv, OneStarts, Starting, Agreed
<1>2. SecretInv /\ [SecretNext]_secretVars => SecretInv'
  BY InHandNext, AgreedNext DEF SecretInv
<1>3. SecretInv => Readable
  BY DEF SecretInv, Agreed, Readable, Decrypts
<1> QED
  BY <1>1, <1>2, <1>3, PTL DEF SecretSpec

----------------------------------------------------------------------------
(* The thread pool: WorkerPool *)

Pools == 1 .. MaxPools
Creators == {j \in Jobs : asked[j] = "create"}

\* Jobs are only ever given to the pool that _executor names; the first requests
\* that race to create it are jobs that do not come back for another pool.  A job
\* that is requested is in one place of one pool.
PoolInv ==
    /\ executor \in 0 .. pools /\ pools \in 0 .. MaxPools /\ (executor = 0 => pools = 0)
    /\ queue \in [Pools -> Seq(Jobs)] /\ working \in [Pools -> SUBSET Jobs]
    /\ asked \in [Jobs -> {"none", "create", "submit", "pending"}]
    /\ \A j \in Jobs : asked[j] = "submit" => executor # 0
    /\ \A p \in Pools : p > pools => queue[p] = <<>> /\ working[p] = {}
    /\ \A p \in Pools : Cardinality(working[p]) <= Workers
    /\ racers \subseteq Jobs /\ Creators \subseteq racers
    /\ pools + Cardinality(Creators) <= Cardinality(racers)

Placed ==
    /\ \A p \in Pools : \A i \in DOMAIN queue[p] :
          asked[queue[p][i]] = "pending" /\ \A q \in Pools : queue[p][i] \notin working[q]
    /\ \A p, q \in Pools : \A i \in DOMAIN queue[p], k \in DOMAIN queue[q] :
          queue[p][i] = queue[q][k] => p = q /\ i = k
    /\ \A p \in Pools : \A j \in working[p] : asked[j] = "pending"

\* Once nobody creates a pool, the last one is the pool of all later requests.
Settled ==
    /\ settled \subseteq Jobs /\ (settled # {} => executor # 0 /\ Creators = {})
    /\ \A p \in Pools \ {executor} : /\ settled \cap working[p] = {}
                                     /\ \A i \in DOMAIN queue[p] : queue[p][i] \notin settled

LEMMA OneMore ==
    ASSUME NEW S, IsFiniteSet(S), NEW x, NEW n \in Nat, Cardinality(S) < n
    PROVE  Cardinality(S \cup {x}) <= n
<1>1. Cardinality(S) \in Nat
  BY FS_CardinalityType
<1>2. Cardinality(S \cup {x}) = IF x \in S THEN Cardinality(S) ELSE Cardinality(S) + 1
  BY FS_AddElement
<1> QED BY <1>1, <1>2

\* The settled jobs run in one pool.
LEMMA SettledBound ==
    ASSUME PoolInv, Settled
    PROVE  Cardinality(Running \cap settled) <= Workers
<1>1. CASE executor \in Pools
  <2>1. Running \cap settled \in SUBSET working[executor]
    BY DEF Running, Pools, Settled
  <2>2. IsFiniteSet(working[executor]) /\ Cardinality(working[executor]) <= Workers
    BY <1>1, WorkerPoolAssumption, FS_Subset DEF PoolInv
  <2>3. /\ Cardinality(Running \cap settled) <= Cardinality(working[executor])
        /\ Cardinality(Running \cap settled) \in Nat /\ Cardinality(working[executor]) \in Nat
    BY <2>1, <2>2, FS_Subset, FS_CardinalityType
  <2> QED BY <2>2, <2>3, WorkerPoolAssumption
<1>2. CASE executor \notin Pools
  <2>1. Running \cap settled = {}
    BY <1>2 DEF Running, Pools, Settled
  <2> QED BY <2>1, FS_EmptySet, WorkerPoolAssumption
<1> QED BY <1>1, <1>2

LEMMA PoolInvInit == PoolInit => PoolInv
<1> SUFFICES ASSUME PoolInit PROVE PoolInv
  OBVIOUS
<1>1. Creators = {}
  BY DEF PoolInit, Creators
<1>2. Cardinality({}) = 0 /\ Cardinality(Jobs) \in Nat
  BY FS_EmptySet, FS_CardinalityType, WorkerPoolAssumption
<1>3. \A p \in Pools : queue[p] = <<>> /\ working[p] = {}
  BY DEF PoolInit, Pools
<1>4. queue \in [Pools -> Seq(Jobs)] /\ working \in [Pools -> SUBSET Jobs]
  BY DEF PoolInit, Pools
<1> QED BY <1>1, <1>2, <1>3, <1>4, WorkerPoolAssumption DEF PoolInit, PoolInv

\* The creators are jobs: one more or one less of them counts for one.
LEMMA CreatorsFinite ==
    ASSUME PoolInv
    PROVE  /\ IsFiniteSet(Creators) /\ Cardinality(Creators) \in Nat
           /\ IsFiniteSet(racers) /\ Cardinality(racers) \in Nat
<1>1. Creators \in SUBSET Jobs /\ racers \in SUBSET Jobs
  BY DEF PoolInv, Creators
<1> QED BY <1>1, WorkerPoolAssumption, FS_Subset, FS_CardinalityType

LEMMA PoolInvNext == PoolInv /\ [PoolNext]_poolVars => PoolInv'
<1> SUFFICES ASSUME PoolInv, [PoolNext]_poolVars PROVE PoolInv'
  OBVIOUS
<1> USE WorkerPoolAssumption DEF history
<1>1. ASSUME NEW j \in Jobs, Look(j) PROVE PoolInv'
  <2>1. UNCHANGED <<executor, pools, queue, working>> /\ asked[j] = "none"
    BY <1>1 DEF Look, Steps
  <2>2. CASE executor = 0 /\ asked' = [asked EXCEPT ![j] = "create"]
    <3>1. pools = 0
      BY <2>2 DEF PoolInv
    <3>2. racers' \in SUBSET Jobs /\ Creators' \in SUBSET racers'
      BY <1>1, <2>2 DEF PoolInv, Creators, Look
    <3>3. Cardinality(Creators') <= Cardinality(racers') /\ Cardinality(Creators') \in Nat
      BY <3>2, FS_Subset, FS_CardinalityType
    <3> QED BY <2>1, <2>2, <3>1, <3>2, <3>3 DEF PoolInv
  <2>3. CASE executor # 0 /\ asked' = [asked EXCEPT ![j] = "submit"]
    <3>1. Creators' = Creators
      BY <2>1, <2>3 DEF Creators, PoolInv
    <3>2. racers' = racers
      BY <1>1, <2>3 DEF Look
    <3> QED BY <2>1, <2>3, <3>1, <3>2 DEF PoolInv
  <2> QED BY <1>1, <2>2, <2>3 DEF Look, NoExecutor, Steps
<1>2. ASSUME NEW j \in Jobs, Create(j) PROVE PoolInv'
  <2>1. /\ pools < MaxPools /\ pools' = pools + 1 /\ executor' = pools + 1 /\ UNCHANGED <<queue, working, racers>>
        /\ asked[j] = "create" /\ asked' = [asked EXCEPT ![j] = "submit"]
    BY <1>2 DEF Create, Steps
  <2>2. Creators' = Creators \ {j} /\ j \in Creators
    BY <2>1 DEF Creators, PoolInv
  <2>3. Cardinality(Creators') = Cardinality(Creators) - 1
    BY <2>2, CreatorsFinite, FS_RemoveElement
  <2>4. pools' + Cardinality(Creators') <= Cardinality(racers)
    BY <2>1, <2>3, CreatorsFinite DEF PoolInv
  <2>5. executor' \in 0 .. pools' /\ pools' \in 0 .. MaxPools /\ executor' # 0
    BY <2>1 DEF PoolInv
  <2>6. \A p \in Pools : p > pools' => p > pools
    BY <2>1 DEF PoolInv, Pools
  <2>7. asked' \in [Jobs -> {"none", "create", "submit", "pending"}]
    BY <2>1 DEF PoolInv
  <2> QED BY <2>1, <2>2, <2>4, <2>5, <2>6, <2>7 DEF PoolInv
<1>3. ASSUME NEW j \in Jobs, Submit(j) PROVE PoolInv'
  <2>1. /\ asked[j] = "submit" /\ asked' = [asked EXCEPT ![j] = "pending"]
        /\ queue' = [queue EXCEPT ![executor] = Append(@, j)] /\ UNCHANGED <<executor, pools, working, racers>>
    BY <1>3 DEF Submit, Steps, Queued
  <2>2. executor \in Pools /\ executor <= pools
    BY <2>1 DEF PoolInv, Pools
  <2>3. queue' \in [Pools -> Seq(Jobs)] /\ \A p \in Pools : p # executor => queue'[p] = queue[p]
    BY <2>1, <2>2 DEF PoolInv
  <2>4. Creators' = Creators
    BY <2>1 DEF Creators, PoolInv
  <2>5. \A p \in Pools : p > pools => p # executor
    BY <2>2 DEF PoolInv, Pools
  <2>6. asked' \in [Jobs -> {"none", "create", "submit", "pending"}]
        /\ \A i \in Jobs : asked'[i] = "submit" => asked[i] = "submit"
    BY <2>1 DEF PoolInv
  <2> QED BY <2>1, <2>3, <2>4, <2>5, <2>6 DEF PoolInv
<1>4. ASSUME NEW p \in 1 .. MaxPools, Take(p) PROVE PoolInv'
  <2>1. /\ queue[p] # <<>> /\ Cardinality(working[p]) < Workers /\ UNCHANGED <<executor, pools, asked, racers>>
        /\ working' = [working EXCEPT ![p] = @ \cup {Head(queue[p])}]
        /\ queue' = [queue EXCEPT ![p] = Tail(@)]
    BY <1>4 DEF Take
  <2>2. p \in Pools /\ p <= pools /\ queue[p] \in Seq(Jobs) /\ working[p] \in SUBSET Jobs
    BY <1>4, <2>1 DEF PoolInv, Pools
  <2>3. Head(queue[p]) \in Jobs /\ Tail(queue[p]) \in Seq(Jobs)
    BY <2>1, <2>2
  <2>4. IsFiniteSet(working[p]) /\ Cardinality(working[p]) \in Nat
    BY <2>2, FS_Subset, FS_CardinalityType
  <2>5. Cardinality(working[p] \cup {Head(queue[p])}) <= Workers
    BY <2>1, <2>4, OneMore
  <2>6. /\ queue' \in [Pools -> Seq(Jobs)] /\ working' \in [Pools -> SUBSET Jobs]
        /\ working'[p] = working[p] \cup {Head(queue[p])}
        /\ \A q \in Pools : q # p => queue'[q] = queue[q] /\ working'[q] = working[q]
    BY <2>1, <2>2, <2>3 DEF PoolInv
  <2>7. Creators' = Creators
    BY <2>1 DEF Creators
  <2>8. \A q \in Pools : Cardinality(working'[q]) <= Workers
    BY <2>5, <2>6 DEF PoolInv
  <2>9. \A q \in Pools : q > pools => queue'[q] = <<>> /\ working'[q] = {}
    BY <2>2, <2>6 DEF PoolInv, Pools
  <2> QED BY <2>1, <2>6, <2>7, <2>8, <2>9 DEF PoolInv
<1>5. ASSUME NEW j \in Jobs, Finish(j) PROVE PoolInv'
  <2>1. /\ asked[j] = "pending" /\ asked' = [asked EXCEPT ![j] = "none"]
        /\ working' = [p \in Pools |-> working[p] \ {j}] /\ UNCHANGED <<executor, pools, queue, racers>>
    BY <1>5 DEF Finish, Steps, Pools
  <2>2. \A p \in Pools : IsFiniteSet(working[p]) /\ Cardinality(working[p]) \in Nat
    <3>1. \A p \in Pools : working[p] \in SUBSET Jobs
      BY DEF PoolInv
    <3> QED BY <3>1, FS_Subset, FS_CardinalityType
  <2>3. \A p \in Pools : Cardinality(working'[p]) <= Workers
    <3> SUFFICES ASSUME NEW p \in Pools PROVE Cardinality(working'[p]) <= Workers
      OBVIOUS
    <3>1. working'[p] = working[p] \ {j} /\ Cardinality(working[p]) <= Workers
      BY <2>1 DEF PoolInv
    <3>2. working[p] \ {j} \in SUBSET working[p]
      OBVIOUS
    <3>3. Cardinality(working[p] \ {j}) <= Cardinality(working[p])
          /\ Cardinality(working[p] \ {j}) \in Nat
      BY <2>2, <3>2, FS_Subset, FS_CardinalityType
    <3> QED BY <2>2, <3>1, <3>3
  <2>4. Creators' = Creators
    BY <2>1 DEF Creators, PoolInv
  <2>5. working' \in [Pools -> SUBSET Jobs]
    BY <2>1 DEF PoolInv
  <2> QED BY <2>1, <2>3, <2>4, <2>5 DEF PoolInv
<1>6. CASE UNCHANGED poolVars
  BY <1>6 DEF poolVars, PoolInv, Creators
<1> QED BY <1>1, <1>2, <1>3, <1>4, <1>5, <1>6 DEF PoolNext

LEMMA PlacedNext ==
    ASSUME PoolInv, Placed, [PoolNext]_poolVars
    PROVE  Placed'
<1> USE DEF history, Placed
<1>0. /\ queue \in [Pools -> Seq(Jobs)] /\ working \in [Pools -> SUBSET Jobs]
      /\ asked \in [Jobs -> {"none", "create", "submit", "pending"}]
      /\ \A p \in Pools : \A i \in DOMAIN queue[p] : queue[p][i] \in Jobs
  BY DEF PoolInv
<1>1. ASSUME NEW j \in Jobs, Look(j) \/ Create(j) PROVE Placed'
  <2>1. UNCHANGED <<queue, working>> /\ asked[j] # "pending" /\ \A i \in Jobs : i # j => asked'[i] = asked[i]
    BY <1>0, <1>1 DEF Look, Create, Steps
  <2> QED BY <1>0, <2>1
<1>2. ASSUME NEW j \in Jobs, Submit(j) PROVE Placed'
  <2>1. /\ asked[j] = "submit" /\ asked' = [asked EXCEPT ![j] = "pending"] /\ UNCHANGED working
        /\ queue' = [queue EXCEPT ![executor] = Append(@, j)] /\ executor \in Pools
    BY <1>2, WorkerPoolAssumption DEF Submit, Steps, Queued, PoolInv, Pools
  <2>2. \A p \in Pools : \A i \in DOMAIN queue'[p] :
           \/ i \in DOMAIN queue[p] /\ queue'[p][i] = queue[p][i]
           \/ p = executor /\ i = Len(queue[p]) + 1 /\ queue'[p][i] = j
    BY <1>0, <2>1
  <2>3. \A p \in Pools : \A i \in DOMAIN queue[p] : queue[p][i] # j
    BY <2>1
  <2>4. \A i \in Jobs : i # j => asked'[i] = asked[i]
    BY <1>0, <2>1
  <2>5. asked'[j] = "pending" /\ \A p \in Pools : j \notin working[p]
    BY <1>0, <2>1
  <2> QED BY <1>0, <2>1, <2>2, <2>3, <2>4, <2>5
<1>3. ASSUME NEW p \in Pools, Take(p) PROVE Placed'
  <2>1. /\ queue[p] # <<>> /\ UNCHANGED asked
        /\ working' = [working EXCEPT ![p] = @ \cup {Head(queue[p])}]
        /\ queue' = [queue EXCEPT ![p] = Tail(@)]
    BY <1>3 DEF Take
  <2>2. queue[p] \in Seq(Jobs) /\ 1 \in DOMAIN queue[p] /\ Head(queue[p]) = queue[p][1]
    BY <1>0, <2>1
  <2>3. \A i \in DOMAIN Tail(queue[p]) : i + 1 \in DOMAIN queue[p] /\ i + 1 # 1 /\ Tail(queue[p])[i] = queue[p][i + 1]
    BY <2>1, <2>2
  <2>4. ASSUME NEW q \in Pools, NEW i \in DOMAIN queue'[q]
        PROVE  LET k == IF q = p THEN i + 1 ELSE i
               IN k \in DOMAIN queue[q] /\ queue'[q][i] = queue[q][k] /\ (q = p => k # 1)
    BY <1>0, <2>1, <2>3
  <2>5. \A q \in Pools : working'[q] \subseteq working[q] \cup {queue[p][1]}
    BY <1>0, <2>1, <2>2
  <2>6. ASSUME NEW q \in Pools, NEW i \in DOMAIN queue'[q]
        PROVE  /\ asked[queue'[q][i]] = "pending" /\ queue'[q][i] # queue[p][1]
               /\ \A o \in Pools : queue'[q][i] \notin working[o]
    BY <2>2, <2>4
  <2>7. ASSUME NEW q \in Pools, NEW o \in Pools, NEW i \in DOMAIN queue'[q], NEW k \in DOMAIN queue'[o],
               queue'[q][i] = queue'[o][k]
        PROVE  q = o /\ i = k
    <3>1. i \in Nat /\ k \in Nat
      BY <1>0, <2>1
    <3>2. q = o /\ (IF q = p THEN i + 1 ELSE i) = (IF o = p THEN k + 1 ELSE k)
      BY <2>4, <2>7
    <3> QED BY <3>1, <3>2
  <2>8. asked[queue[p][1]] = "pending"
    BY <2>2
  <2> QED BY <2>1, <2>5, <2>6, <2>7, <2>8
<1>4. ASSUME NEW j \in Jobs, Finish(j) PROVE Placed'
  <2>1. /\ j \in Running /\ asked' = [asked EXCEPT ![j] = "none"]
        /\ working' = [p \in Pools |-> working[p] \ {j}] /\ UNCHANGED queue
    BY <1>4 DEF Finish, Steps, Pools
  <2>2. \A p \in Pools : \A i \in DOMAIN queue[p] : queue[p][i] # j
    BY <2>1 DEF Running, Pools
  <2>3. \A i \in Jobs : i # j => asked'[i] = asked[i]
    BY <1>0, <2>1
  <2>4. \A p \in Pools : working'[p] \subseteq working[p] /\ j \notin working'[p]
    BY <2>1
  <2> QED BY <1>0, <2>1, <2>2, <2>3, <2>4
<1>5. CASE UNCHANGED poolVars
  BY <1>5 DEF poolVars
<1> QED BY <1>1, <1>2, <1>3, <1>4, <1>5 DEF PoolNext, Pools

LEMMA SettledNext ==
    ASSUME PoolInv, Placed, Settled, [PoolNext]_poolVars
    PROVE  Settled'
<1> USE DEF history, Settled, Creators
<1>0. /\ queue \in [Pools -> Seq(Jobs)] /\ working \in [Pools -> SUBSET Jobs]
      /\ asked \in [Jobs -> {"none", "create", "submit", "pending"}]
  BY DEF PoolInv
<1>1. ASSUME NEW j \in Jobs, Look(j) PROVE Settled'
  <2>1. UNCHANGED <<executor, queue, working>> /\ asked[j] = "none"
        /\ settled' = IF executor = 0 \/ Creating THEN settled \ {j} ELSE settled \cup {j}
    BY <1>1 DEF Look, Steps
  <2>2. executor # 0 => Creators' = Creators
    BY <1>0, <1>1 DEF Look, Steps, NoExecutor
  <2>3. /\ \A p \in Pools : j \notin working[p]
        /\ \A p \in Pools : \A i \in DOMAIN queue[p] : queue[p][i] # j
    BY <2>1 DEF Placed
  <2> QED BY <2>1, <2>2, <2>3 DEF Creating
<1>2. ASSUME NEW j \in Jobs, Create(j) PROVE Settled'
  <2>1. asked[j] = "create" /\ UNCHANGED settled
    BY <1>2 DEF Create, Steps
  <2>2. settled = {}
    BY <2>1
  <2> QED BY <2>1, <2>2
<1>3. ASSUME NEW j \in Jobs, Submit(j) PROVE Settled'
  <2>1. /\ UNCHANGED <<executor, working, settled>> /\ executor \in Pools
        /\ queue' = [queue EXCEPT ![executor] = Append(@, j)]
        /\ asked' = [asked EXCEPT ![j] = "pending"]
    BY <1>3, WorkerPoolAssumption DEF Submit, Steps, Queued, PoolInv, Pools
  <2>2. \A p \in Pools \ {executor} : queue'[p] = queue[p]
    BY <1>0, <2>1
  <2>3. Creators' \subseteq Creators
    BY <1>0, <2>1
  <2> QED BY <2>1, <2>2, <2>3
<1>4. ASSUME NEW p \in Pools, Take(p) PROVE Settled'
  <2>1. /\ queue[p] # <<>> /\ UNCHANGED <<asked, executor, settled>>
        /\ working' = [working EXCEPT ![p] = @ \cup {Head(queue[p])}]
        /\ queue' = [queue EXCEPT ![p] = Tail(@)]
    BY <1>4 DEF Take
  <2>2. queue[p] \in Seq(Jobs) /\ 1 \in DOMAIN queue[p] /\ Head(queue[p]) = queue[p][1]
    BY <1>0, <2>1
  <2>3. \A i \in DOMAIN Tail(queue[p]) : i + 1 \in DOMAIN queue[p] /\ Tail(queue[p])[i] = queue[p][i + 1]
    BY <2>1, <2>2
  <2>4. \A q \in Pools \ {p} : queue'[q] = queue[q] /\ working'[q] = working[q]
    BY <1>0, <2>1
  <2>5. queue'[p] = Tail(queue[p]) /\ working'[p] = working[p] \cup {queue[p][1]}
    BY <1>0, <2>1, <2>2
  <2> QED BY <2>1, <2>2, <2>3, <2>4, <2>5
<1>5. ASSUME NEW j \in Jobs, Finish(j) PROVE Settled'
  <2>1. /\ UNCHANGED <<executor, queue, settled>> /\ asked' = [asked EXCEPT ![j] = "none"]
        /\ working' = [p \in Pools |-> working[p] \ {j}]
    BY <1>5 DEF Finish, Steps, Pools
  <2>2. Creators' \subseteq Creators
    BY <1>0, <2>1
  <2> QED BY <2>1, <2>2
<1>6. CASE UNCHANGED poolVars
  BY <1>6 DEF poolVars
<1> QED BY <1>1, <1>2, <1>3, <1>4, <1>5, <1>6 DEF PoolNext, Pools

\* However many first requests race in run_in_background, each leaves at most one
\* pool, no later request another, and the jobs requested after that race share
\* one pool and its WORKER_THREADS: PoolSpec => []PoolsKeepTheirBound.
THEOREM PoolsAreBounded == PoolSpec => []PoolsKeepTheirBound
<1>1. PoolInit => Placed /\ Settled
  BY DEF PoolInit, Placed, Settled, Pools
<1>2. PoolInv /\ Settled => PoolsKeepTheirBound
  <2> SUFFICES ASSUME PoolInv, Settled PROVE pools <= Cardinality(racers)
    BY SettledBound DEF PoolsKeepTheirBound
  <2> QED BY CreatorsFinite DEF PoolInv
<1>3. PoolInv /\ Placed /\ Settled /\ [PoolNext]_poolVars => PoolInv' /\ Placed' /\ Settled'
  BY PoolInvNext, PlacedNext, SettledNext
<1> QED BY <1>1, <1>2, <1>3, PoolInvInit, PTL DEF PoolSpec

----------------------------------------------------------------------------
(* Failed logins: LoginThrottle *)

\* Induction, for a set of numbers.
LEMMA Induction ==
    ASSUME NEW T, 0 \in T, \A n \in Nat : n \in T => n + 1 \in T
    PROVE  Nat \subseteq T
<1> DEFINE Less == {p \in Nat \X Nat : p[1] < p[2]}  Out == Nat \ T
<1> SUFFICES ASSUME Out # {} PROVE FALSE
  OBVIOUS
<1>1. IsWellFoundedOn(Less, Nat)
  BY NatLessThanWellFounded DEF OpToRel
<1>2. PICK x \in Out : \A y \in Out : <<y, x>> \notin Less
  <2>1. Out \in SUBSET Nat
    OBVIOUS
  <2> HIDE DEF Less, Out
  <2> QED BY <1>1, <2>1, WFMin
<1>3. \A y \in Out : ~(y < x)
  BY <1>2
<1>4. x \in Nat /\ x # 0 /\ x \notin T
  OBVIOUS
<1>5. x - 1 \in Nat /\ x - 1 < x /\ (x - 1) + 1 = x
  BY <1>4
<1>6. x - 1 \in T
  BY <1>3, <1>5
<1> QED BY <1>4, <1>5, <1>6

\* The lists that the loop of _recent_failures goes through.
IsKeeping(f, n, ages, limit) ==
    f = [i \in 0 .. n |-> IF i = 0 THEN <<>> ELSE Keep(f[i - 1], ages[i], limit)]

\* It has them all.
LEMMA KeepingExists ==
    ASSUME NEW ages, NEW limit, NEW n \in Nat
    PROVE  \E f : IsKeeping(f, n, ages, limit)
<1> DEFINE T == {m \in Nat : \E f : IsKeeping(f, m, ages, limit)}
<1>1. 0 \in T
  <2>1. IsKeeping([i \in 0 .. 0 |-> <<>>], 0, ages, limit)
    BY DEF IsKeeping
  <2> QED BY <2>1
<1>2. ASSUME NEW m \in Nat, m \in T PROVE m + 1 \in T
  <2>1. PICK before : IsKeeping(before, m, ages, limit)
    BY <1>2
  <2> DEFINE f == [i \in 0 .. m + 1 |-> IF i = m + 1 THEN Keep(before[m], ages[m + 1], limit) ELSE before[i]]
  <2>2. ASSUME NEW i \in 0 .. m + 1
        PROVE  f[i] = IF i = 0 THEN <<>> ELSE Keep(f[i - 1], ages[i], limit)
    <3>1. CASE i = m + 1
      BY <3>1
    <3>2. CASE i # m + 1
      <4>1. i \in 0 .. m /\ (i # 0 => i - 1 \in 0 .. m /\ i - 1 # m + 1)
        BY <3>2
      <4>2. before[i] = IF i = 0 THEN <<>> ELSE Keep(before[i - 1], ages[i], limit)
        BY <2>1, <4>1 DEF IsKeeping
      <4> QED BY <3>2, <4>1, <4>2
    <3> QED BY <3>1, <3>2
  <2>3. IsKeeping(f, m + 1, ages, limit)
    BY <2>2 DEF IsKeeping
  <2> QED BY <2>3
<1> HIDE DEF T
<1>3. Nat \subseteq T
  BY <1>1, <1>2, Induction
<1> QED BY <1>3 DEF T

LEMMA KeepingLoop ==
    ASSUME NEW ages \in Seq(Nat), NEW limit
    PROVE  \E f : /\ Within(ages, limit) = f[Len(ages)] /\ f[0] = <<>>
                  /\ \A i \in 1 .. Len(ages) : f[i] = Keep(f[i - 1], ages[i], limit)
<1> DEFINE f == CHOOSE g : g = [i \in 0 .. Len(ages) |-> IF i = 0 THEN <<>> ELSE Keep(g[i - 1], ages[i], limit)]
<1>1. Within(ages, limit) = f[Len(ages)]
  BY DEF Within
<1>2. Len(ages) \in Nat
  OBVIOUS
<1>3. IsKeeping(f, Len(ages), ages, limit)
  <2> HIDE DEF f
  <2>1. PICK g : IsKeeping(g, Len(ages), ages, limit)
    BY <1>2, KeepingExists
  <2>2. \E h : h = [i \in 0 .. Len(ages) |-> IF i = 0 THEN <<>> ELSE Keep(h[i - 1], ages[i], limit)]
    BY <2>1, Zenon DEF IsKeeping
  <2>3. f = [i \in 0 .. Len(ages) |-> IF i = 0 THEN <<>> ELSE Keep(f[i - 1], ages[i], limit)]
    BY <2>2, Zenon DEF f
  <2> QED BY <2>3, Zenon DEF IsKeeping
<1> HIDE DEF f
<1>4. f[0] = <<>> /\ \A i \in 1 .. Len(ages) : f[i] = Keep(f[i - 1], ages[i], limit)
  <2>1. 0 \in 0 .. Len(ages) /\ \A i \in 1 .. Len(ages) : i \in 0 .. Len(ages) /\ i # 0
    BY <1>2
  <2>2. \A i \in 0 .. Len(ages) : f[i] = IF i = 0 THEN <<>> ELSE Keep(f[i - 1], ages[i], limit)
    BY <1>3, Zenon DEF IsKeeping
  <2> QED BY <2>1, <2>2
<1> QED BY <1>1, <1>4

\* How many entries are younger than a.
Younger(ages, a) == Cardinality({i \in DOMAIN ages : ages[i] < a})

\* Lists are finite.
LEMMA YoungerNat ==
    ASSUME NEW ages \in Seq(Nat), NEW a
    PROVE  IsFiniteSet({i \in DOMAIN ages : ages[i] < a}) /\ Younger(ages, a) \in Nat
<1>1. IsFiniteSet(1 .. Len(ages))
  BY FS_Interval
<1>2. {i \in DOMAIN ages : ages[i] < a} \subseteq 1 .. Len(ages)
  OBVIOUS
<1>3. IsFiniteSet({i \in DOMAIN ages : ages[i] < a})
  BY <1>1, <1>2, FS_Subset
<1> QED BY <1>3, FS_CardinalityType DEF Younger

\* An empty list has none.
LEMMA YoungerNone ==
    ASSUME NEW a
    PROVE  Younger(<<>>, a) = 0
<1>1. {i \in DOMAIN <<>> : <<>>[i] < a} = {}
  OBVIOUS
<1> QED BY <1>1, FS_EmptySet DEF Younger

\* One entry more.
LEMMA YoungerAppend ==
    ASSUME NEW ages \in Seq(Nat), NEW age \in Nat, NEW a \in Nat
    PROVE  Younger(Append(ages, age), a) = Younger(ages, a) + (IF age < a THEN 1 ELSE 0)
<1> DEFINE S(q) == {i \in DOMAIN q : q[i] < a}
           n == Len(ages) + 1
<1>2. S(Append(ages, age)) = IF age < a THEN S(ages) \cup {n} ELSE S(ages)
  <2>1. DOMAIN Append(ages, age) = DOMAIN ages \cup {n}
    OBVIOUS
  <2>2. Append(ages, age)[n] = age /\ \A i \in DOMAIN ages : Append(ages, age)[i] = ages[i]
    OBVIOUS
  <2> QED BY <2>1, <2>2
<1>3. n \notin S(ages)
  OBVIOUS
<1>4. IsFiniteSet(S(ages)) /\ Cardinality(S(ages)) \in Nat
  BY YoungerNat, FS_CardinalityType
<1>5. age < a => Cardinality(S(ages) \cup {n}) = Cardinality(S(ages)) + 1
  <2> HIDE DEF S, n
  <2> QED BY <1>3, <1>4, FS_AddElement
<1>6. Younger(ages, a) = Cardinality(S(ages)) /\ Younger(Append(ages, age), a) = Cardinality(S(Append(ages, age)))
  BY DEF Younger
<1>8. CASE age < a
  <2> HIDE DEF S, n
  <2> QED BY <1>2, <1>5, <1>6, <1>8
<1>9. CASE ~(age < a)
  <2>1. S(Append(ages, age)) = S(ages)
    BY <1>2, <1>9
  <2> HIDE DEF S, n
  <2>2. Younger(Append(ages, age), a) = Younger(ages, a) /\ Younger(ages, a) \in Nat
    BY <1>4, <1>6, <2>1
  <2> QED BY <1>9, <2>2
<1> QED BY <1>8, <1>9

\* Dropping the old ones drops no young one.
LEMMA WithinFacts ==
    ASSUME NEW ages \in Seq(Nat), NEW limit \in Nat
    PROVE  /\ Within(ages, limit) \in Seq(Nat)
           /\ \A i \in DOMAIN Within(ages, limit) : Within(ages, limit)[i] < limit
           /\ \A a \in 0 .. limit : Younger(Within(ages, limit), a) = Younger(ages, a)
<1>1. PICK f : /\ Within(ages, limit) = f[Len(ages)] /\ f[0] = <<>>
               /\ \A i \in 1 .. Len(ages) : f[i] = Keep(f[i - 1], ages[i], limit)
  BY KeepingLoop
<1> DEFINE First(n) == SubSeq(ages, 1, n)
           Good(n) == /\ f[n] \in Seq(Nat) /\ \A i \in DOMAIN f[n] : f[n][i] < limit
                      /\ \A a \in 0 .. limit : Younger(f[n], a) = Younger(First(n), a)
           T == {n \in Nat : n <= Len(ages) => Good(n)}
<1>2. 0 \in T
  <2>1. First(0) = <<>>
    OBVIOUS
  <2>2. <<>> \in Seq(Nat) /\ DOMAIN <<>> = {}
    OBVIOUS
  <2> HIDE DEF First
  <2>3. Good(0)
    BY <1>1, <2>1, <2>2
  <2> QED BY <2>3
<1>3. ASSUME NEW n \in Nat, n \in T PROVE n + 1 \in T
  <2> SUFFICES ASSUME n + 1 <= Len(ages) PROVE Good(n + 1)
    OBVIOUS
  <2>1. Good(n)
    BY <1>3
  <2>2. ages[n + 1] \in Nat /\ First(n) \in Seq(Nat) /\ First(n + 1) = Append(First(n), ages[n + 1])
    <3>0. n \in Nat /\ n + 1 <= Len(ages) /\ n + 1 \in 1 .. Len(ages)
      OBVIOUS
    <3>1. ages[n + 1] \in Nat /\ First(n) \in Seq(Nat) /\ Len(First(n)) = n /\ First(n + 1) \in Seq(Nat) /\ Len(First(n + 1)) = n + 1
      OBVIOUS
    <3>2. \A i \in 1 .. n + 1 : First(n + 1)[i] = Append(First(n), ages[n + 1])[i]
      OBVIOUS
    <3>3. Append(First(n), ages[n + 1]) \in Seq(Nat) /\ Len(Append(First(n), ages[n + 1])) = n + 1
      BY <3>1
    <3> HIDE DEF First
    <3>4. \A q, r \in Seq(Nat) : Len(q) = n + 1 /\ Len(r) = n + 1 /\ (\A i \in 1 .. n + 1 : q[i] = r[i]) => q = r
      OBVIOUS
    <3> QED BY <3>1, <3>2, <3>3, <3>4
  <2>3. f[n + 1] = Keep(f[n], ages[n + 1], limit)
    BY <1>1
  <2> HIDE DEF First
  <2>4. \A a \in 0 .. limit : Younger(First(n + 1), a) = Younger(First(n), a) + (IF ages[n + 1] < a THEN 1 ELSE 0)
    <3> DEFINE q == First(n)
    <3> HIDE DEF q
    <3>1. q \in Seq(Nat) /\ ages[n + 1] \in Nat /\ First(n + 1) = Append(q, ages[n + 1])
      BY <2>2 DEF q
    <3>2. \A a \in 0 .. limit : Younger(Append(q, ages[n + 1]), a) = Younger(q, a) + (IF ages[n + 1] < a THEN 1 ELSE 0)
      BY <3>1, YoungerAppend
    <3> QED BY <3>1, <3>2 DEF q
  <2>5. CASE ages[n + 1] < limit
    <3>1. f[n + 1] = Append(f[n], ages[n + 1])
      BY <2>3, <2>5 DEF Keep
    <3>2. \A a \in 0 .. limit : Younger(f[n + 1], a) = Younger(f[n], a) + (IF ages[n + 1] < a THEN 1 ELSE 0)
      BY <2>1, <2>2, <3>1, YoungerAppend
    <3>3. f[n + 1] \in Seq(Nat) /\ \A i \in DOMAIN f[n + 1] : f[n + 1][i] < limit
      <4> DEFINE q == f[n]
      <4>1. q \in Seq(Nat) /\ \A i \in DOMAIN q : q[i] < limit
        BY <2>1
      <4> HIDE DEF q
      <4>2. Append(q, ages[n + 1]) \in Seq(Nat)
        BY <2>2, <4>1
      <4>3. \A i \in DOMAIN Append(q, ages[n + 1]) : Append(q, ages[n + 1])[i] < limit
        <5>1. \A i \in DOMAIN Append(q, ages[n + 1]) :
                 Append(q, ages[n + 1])[i] = ages[n + 1] \/ (i \in DOMAIN q /\ Append(q, ages[n + 1])[i] = q[i])
          BY <2>2, <4>1
        <5> QED BY <2>5, <4>1, <5>1
      <4> QED BY <3>1, <4>2, <4>3 DEF q
    <3> QED BY <2>1, <2>4, <3>2, <3>3
  <2>6. CASE ~(ages[n + 1] < limit)
    <3>1. f[n + 1] = f[n]
      BY <2>3, <2>6 DEF Keep
    <3>2. \A a \in 0 .. limit : ~(ages[n + 1] < a)
      BY <2>2, <2>6
    <3>3. \A a \in 0 .. limit : Younger(First(n + 1), a) = Younger(First(n), a)
      <4> SUFFICES ASSUME NEW a \in 0 .. limit PROVE Younger(First(n + 1), a) = Younger(First(n), a)
        OBVIOUS
      <4>1. Younger(First(n), a) \in Nat
        BY <2>2, YoungerNat
      <4> QED BY <2>4, <3>2, <4>1
    <3> QED BY <2>1, <3>1, <3>3
  <2> QED BY <2>5, <2>6
<1> HIDE DEF T
<1>4. Nat \subseteq T
  BY <1>2, <1>3, Induction
<1>5. Good(Len(ages))
  BY <1>4 DEF T
<1>6. First(Len(ages)) = ages
  OBVIOUS
<1> QED BY <1>1, <1>5, <1>6

\* All of the entries of a list of young ones are young.
LEMMA AllYounger ==
    ASSUME NEW ages \in Seq(Nat), NEW a \in Nat, \A i \in DOMAIN ages : ages[i] < a
    PROVE  Younger(ages, a) = Len(ages)
<1>1. {i \in DOMAIN ages : ages[i] < a} = 1 .. Len(ages)
  OBVIOUS
<1>2. Cardinality(1 .. Len(ages)) = Len(ages)
  <2>1. Len(ages) \in Int /\ (1 > Len(ages) => Len(ages) = 0) /\ Len(ages) - 1 + 1 = Len(ages)
    OBVIOUS
  <2> QED BY <2>1, FS_Interval
<1> QED BY <1>1, <1>2 DEF Younger

\* A tick later, the entries younger than a are those that were younger than a - 1.
LEMMA YoungerLater ==
    ASSUME NEW ages \in Seq(Nat), NEW a \in 1 .. Window
    PROVE  Younger(Older(ages), a) = Younger(ages, a - 1)
<1>1. {i \in DOMAIN Older(ages) : Older(ages)[i] < a} = {i \in DOMAIN ages : ages[i] < a - 1}
  BY LoginThrottleAssumption DEF Older
<1> QED BY <1>1 DEF Younger

LEMMA OlderSeq ==
    ASSUME NEW ages \in Seq(Nat)
    PROVE  Older(ages) \in Seq(Nat)
BY LoginThrottleAssumption DEF Older

\* The threads that are past the check, and those of them whose password was wrong.
Verifying(k) == {t \in Threads : login[t].stage = "verify" /\ login[t].key = k}
Wrong(k) == {t \in Threads : login[t].stage = "record" /\ login[t].key = k /\ ~login[t].right}

\* What a thread may be at.
Logins == {NoLogin} \cup [stage : {"verify", "record"}, key : Keys, right : BOOLEAN]

\* A guess is forgotten when it is as old as the window.
LoginsTyped ==
    /\ failures \in [Keys -> Seq(Nat)] /\ guesses \in [Keys -> Seq(Nat)]
    /\ login \in [Threads -> Logins]
    /\ \A k \in Keys : \A i \in DOMAIN guesses[k] : guesses[k][i] < Window

\* Each wrong guess is a failure that is as young, or will be one.
Accounted ==
    \A k \in Keys : \A a \in 0 .. Window :
        Younger(guesses[k], a) <= Younger(failures[k], a) + Cardinality(Wrong(k))

\* The guesses made and those under way.
Ahead == \A k \in Keys : Len(guesses[k]) + Cardinality(Verifying(k)) < MaxAttempts + Cardinality(Threads)

\* The inductive invariant.
LoginInv == LoginsTyped /\ Accounted /\ Ahead

\* Threads are finitely many, so the sets of them have their numbers.
LEMMA ThreadSets ==
    ASSUME NEW S \in SUBSET Threads, NEW R \in SUBSET Threads, S \cap R = {}, NEW t \in Threads
    PROVE  /\ IsFiniteSet(S) /\ Cardinality(S) \in Nat /\ Cardinality(Threads) \in Nat
           /\ Cardinality(S) + Cardinality(R) <= Cardinality(Threads)
           /\ t \notin S => Cardinality(S \cup {t}) = Cardinality(S) + 1
           /\ t \in S => Cardinality(S \ {t}) = Cardinality(S) - 1
<1>1. IsFiniteSet(S) /\ IsFiniteSet(R) /\ IsFiniteSet(Threads)
  BY LoginThrottleAssumption, FS_Subset
<1>2. Cardinality(S) \in Nat /\ Cardinality(R) \in Nat /\ Cardinality(Threads) \in Nat
  BY <1>1, FS_CardinalityType
<1>3. Cardinality(S) + Cardinality(R) <= Cardinality(Threads)
  <2>1. Cardinality(S \cup R) = Cardinality(S) + Cardinality(R) - Cardinality(S \cap R)
    BY <1>1, FS_Union
  <2>2. Cardinality(S \cup R) <= Cardinality(Threads)
    <3>1. S \cup R \in SUBSET Threads
      OBVIOUS
    <3> QED BY <1>1, <3>1, FS_Subset
  <2>3. Cardinality(S \cap R) = 0
    BY FS_EmptySet
  <2> QED BY <1>2, <2>1, <2>2, <2>3
<1>4. t \notin S => Cardinality(S \cup {t}) = Cardinality(S) + 1
  BY <1>1, FS_AddElement
<1>5. t \in S => Cardinality(S \ {t}) = Cardinality(S) - 1
  BY <1>1, FS_RemoveElement
<1> QED BY <1>1, <1>2, <1>3, <1>4, <1>5

\* It holds at first, and each step keeps it.
LEMMA LoginInvInit == ThrottleInit => LoginInv
<1> SUFFICES ASSUME ThrottleInit PROVE LoginInv
  OBVIOUS
<1> USE DEF ThrottleInit
<1>1. <<>> \in Seq(Nat) /\ DOMAIN <<>> = {} /\ Len(<<>>) = 0
  OBVIOUS
<1>2. LoginsTyped
  BY <1>1 DEF LoginsTyped, Logins
<1>3. \A k \in Keys : Verifying(k) = {} /\ Wrong(k) = {}
  BY DEF Verifying, Wrong, NoLogin
<1>4. Cardinality({}) = 0 /\ Cardinality(Threads) \in Nat
  BY LoginThrottleAssumption, FS_EmptySet, FS_CardinalityType
<1>5. \A k \in Keys : guesses[k] = <<>> /\ failures[k] = <<>>
  OBVIOUS
<1>6. Accounted
  <2>1. \A a : Younger(<<>>, a) = 0
    BY YoungerNone
  <2> SUFFICES ASSUME NEW k \in Keys, NEW a \in 0 .. Window
               PROVE  Younger(guesses[k], a) <= Younger(failures[k], a) + Cardinality(Wrong(k))
    BY DEF Accounted
  <2>2. Younger(guesses[k], a) = 0 /\ Younger(failures[k], a) = 0 /\ Cardinality(Wrong(k)) = 0
    BY <1>3, <1>4, <1>5, <2>1
  <2> QED BY <2>2
<1>7. Ahead
  <2>1. MaxAttempts \in Nat /\ MaxAttempts > 0
    BY LoginThrottleAssumption
  <2>2. 0 + 0 < MaxAttempts + Cardinality(Threads)
    BY <1>4, <2>1
  <2> QED BY <1>1, <1>3, <1>4, <1>5, <2>2 DEF Ahead
<1> QED BY <1>2, <1>6, <1>7 DEF LoginInv

\* What a step has to show, key by key.
LEMMA LoginInvByKeys ==
    ASSUME LoginInv, LoginsTyped',
           \A k \in Keys :
               /\ \A a \in 0 .. Window :
                     Younger(guesses'[k], a) <= Younger(failures'[k], a) + Cardinality(Wrong(k)')
               /\ Len(guesses'[k]) + Cardinality(Verifying(k)') < MaxAttempts + Cardinality(Threads)
    PROVE  LoginInv'
<1>1. Accounted'
  BY DEF Accounted, Younger
<1>2. Ahead'
  BY DEF Ahead
<1> QED BY <1>1, <1>2 DEF LoginInv

\* The guesses of a key that are young are counted by its recent failures.
LEMMA KeyFacts ==
    ASSUME LoginInv, NEW k \in Keys
    PROVE  /\ failures[k] \in Seq(Nat) /\ guesses[k] \in Seq(Nat) /\ Window \in Nat /\ Window > 0
           /\ Recent(failures[k]) \in Seq(Nat)
           /\ \A a \in 0 .. Window : Younger(Recent(failures[k]), a) = Younger(failures[k], a)
           /\ Len(Recent(failures[k])) = Younger(failures[k], Window)
           /\ Len(guesses[k]) = Younger(guesses[k], Window)
           /\ \A a \in 0 .. Window : Younger(guesses[k], a) \in Nat /\ Younger(failures[k], a) \in Nat
           /\ Verifying(k) \in SUBSET Threads /\ Wrong(k) \in SUBSET Threads /\ Verifying(k) \cap Wrong(k) = {}
           /\ Len(guesses[k]) \in Nat
<1>1. failures[k] \in Seq(Nat) /\ guesses[k] \in Seq(Nat) /\ \A i \in DOMAIN guesses[k] : guesses[k][i] < Window
  BY DEF LoginInv, LoginsTyped
<1>2. Window \in Nat /\ Window > 0 /\ Window \in 0 .. Window
  BY LoginThrottleAssumption
<1>3. /\ Recent(failures[k]) \in Seq(Nat)
      /\ \A i \in DOMAIN Recent(failures[k]) : Recent(failures[k])[i] < Window
      /\ \A a \in 0 .. Window : Younger(Recent(failures[k]), a) = Younger(failures[k], a)
  BY <1>1, <1>2, WithinFacts DEF Recent
<1>4. Len(Recent(failures[k])) = Younger(Recent(failures[k]), Window)
  BY <1>2, <1>3, AllYounger
<1>5. Len(guesses[k]) = Younger(guesses[k], Window)
  BY <1>1, <1>2, AllYounger
<1>6. \A a : Younger(guesses[k], a) \in Nat /\ Younger(failures[k], a) \in Nat
  BY <1>1, YoungerNat
<1>7. Verifying(k) \in SUBSET Threads /\ Wrong(k) \in SUBSET Threads /\ Verifying(k) \cap Wrong(k) = {}
  BY DEF Verifying, Wrong
<1>8. Len(Recent(failures[k])) = Younger(failures[k], Window)
  BY <1>2, <1>3, <1>4
<1>9. Len(guesses[k]) \in Nat
  BY <1>1
<1> QED BY <1>1, <1>2, <1>3, <1>5, <1>6, <1>7, <1>8, <1>9

LEMMA CheckKeeps ==
    ASSUME LoginInv, NEW t \in Threads, NEW key \in Keys, Check(t, key)
    PROVE  LoginInv'
<1>1. guesses' = guesses /\ login[t] = NoLogin /\ failures' = [failures EXCEPT ![key] = Recent(failures[key])]
  BY DEF Check, AfterRefusal
<1>2. failures \in [Keys -> Seq(Nat)] /\ login \in [Threads -> Logins]
  BY DEF LoginInv, LoginsTyped
<1>3. \A k \in Keys : failures'[k] \in Seq(Nat)
                       /\ \A a \in 0 .. Window : Younger(failures'[k], a) = Younger(failures[k], a)
  BY <1>1, <1>2, KeyFacts
<1>4. failures' \in [Keys -> Seq(Nat)]
  BY <1>1, <1>2, <1>3
<1>5. CASE login' = login
  <2>1. LoginsTyped'
    BY <1>1, <1>4, <1>5 DEF LoginInv, LoginsTyped
  <2>2. \A k \in Keys : Verifying(k)' = Verifying(k) /\ Wrong(k)' = Wrong(k)
    BY <1>5 DEF Verifying, Wrong
  <2>3. ASSUME NEW k \in Keys
        PROVE  /\ \A a \in 0 .. Window :
                     Younger(guesses'[k], a) <= Younger(failures'[k], a) + Cardinality(Wrong(k)')
               /\ Len(guesses'[k]) + Cardinality(Verifying(k)') < MaxAttempts + Cardinality(Threads)
    BY <1>1, <1>3, <2>2 DEF LoginInv, Accounted, Ahead
  <2> QED BY <2>1, <2>3, LoginInvByKeys
<1>6. CASE /\ Len(Recent(failures[key])) < MaxAttempts
           /\ login' = [login EXCEPT ![t] = [stage |-> "verify", key |-> key, right |-> FALSE]]
  <2>1. LoginsTyped'
    BY <1>1, <1>2, <1>4, <1>6 DEF LoginInv, LoginsTyped, Logins
  <2>2. \A k \in Keys : /\ Wrong(k)' = Wrong(k)
                         /\ Verifying(k)' = IF k = key THEN Verifying(k) \cup {t} ELSE Verifying(k)
    BY <1>1, <1>2, <1>6 DEF Verifying, Wrong, NoLogin
  <2>3. t \notin Verifying(key) /\ t \notin Wrong(key)
    BY <1>1 DEF Verifying, Wrong, NoLogin
  <2>4. ASSUME NEW k \in Keys
        PROVE  /\ \A a \in 0 .. Window :
                     Younger(guesses'[k], a) <= Younger(failures'[k], a) + Cardinality(Wrong(k)')
               /\ Len(guesses'[k]) + Cardinality(Verifying(k)') < MaxAttempts + Cardinality(Threads)
    <3>1. \A a \in 0 .. Window :
             Younger(guesses'[k], a) <= Younger(failures'[k], a) + Cardinality(Wrong(k)')
      BY <1>1, <1>3, <2>2 DEF LoginInv, Accounted
    <3>2. CASE k # key
      BY <1>1, <2>2, <3>1, <3>2 DEF LoginInv, Ahead
    <3>3. CASE k = key
      <4> DEFINE V == Cardinality(Verifying(k) \cup {t})  W == Cardinality(Wrong(k))  G == Len(guesses[k])
                 N == Cardinality(Threads)  F == Younger(failures[k], Window)
      <4>1. Verifying(k) \cup {t} \in SUBSET Threads /\ Wrong(k) \in SUBSET Threads
            /\ (Verifying(k) \cup {t}) \cap Wrong(k) = {} /\ Wrong(k) \cap {} = {} /\ {} \in SUBSET Threads
        BY <2>3, <3>3, KeyFacts
      <4>2. V + W <= N
        BY <4>1, ThreadSets
      <4>3. V \in Nat /\ W \in Nat /\ N \in Nat
        <5> HIDE DEF V, W, N
        <5>1. V \in Nat /\ N \in Nat
          BY <4>1, ThreadSets DEF V, N
        <5>2. W \in Nat
          BY <4>1, ThreadSets DEF W
        <5> QED BY <5>1, <5>2
      <4>4. Window \in 0 .. Window /\ G = Younger(guesses[k], Window) /\ F < MaxAttempts /\ G \in Nat /\ F \in Nat
        BY <1>6, <3>3, KeyFacts
      <4>5. G <= F + W
        BY <4>4 DEF LoginInv, Accounted
      <4>6. guesses'[k] = guesses[k] /\ Verifying(k)' = Verifying(k) \cup {t}
        BY <1>1, <2>2, <3>3
      <4>7. MaxAttempts \in Nat
        BY LoginThrottleAssumption
      <4>8. G + V < MaxAttempts + N
        <5> HIDE DEF V, W, N, G, F
        <5> QED BY <4>2, <4>3, <4>4, <4>5, <4>7
      <4> QED BY <3>1, <4>6, <4>8
    <3> QED BY <3>2, <3>3
  <2> QED BY <2>1, <2>4, LoginInvByKeys
<1> QED BY <1>5, <1>6 DEF Check

LEMMA VerifyKeeps ==
    ASSUME LoginInv, NEW t \in Threads, Verify(t)
    PROVE  LoginInv'
<1> DEFINE key == login[t].key
<1>1. PICK right \in BOOLEAN :
         /\ login' = [login EXCEPT ![t] = [login[t] EXCEPT !.stage = "record", !.right = right]]
         /\ guesses' = [guesses EXCEPT ![key] = IF right THEN guesses[key] ELSE Append(guesses[key], 0)]
  BY DEF Verify
<1>2. failures' = failures /\ login[t].stage = "verify"
  BY DEF Verify
<1>3. /\ failures \in [Keys -> Seq(Nat)] /\ guesses \in [Keys -> Seq(Nat)]
      /\ login \in [Threads -> Logins]
      /\ \A k \in Keys : \A i \in DOMAIN guesses[k] : guesses[k][i] < Window
  BY DEF LoginInv, LoginsTyped
<1>4. login[t] \in [stage : {"verify", "record"}, key : Keys, right : BOOLEAN] /\ key \in Keys
  BY <1>2, <1>3 DEF Logins, NoLogin
<1> HIDE DEF key
<1>5. login'[t] = [stage |-> "record", key |-> key, right |-> right]
      /\ \A u \in Threads \ {t} : login'[u] = login[u]
  BY <1>1, <1>3, <1>4 DEF key
<1>6. \A k \in Keys : /\ Verifying(k)' = Verifying(k) \ {t}
                       /\ Wrong(k)' = IF k = key /\ ~right THEN Wrong(k) \cup {t} ELSE Wrong(k)
  BY <1>2, <1>5 DEF Verifying, Wrong
<1>7. t \in Verifying(key) /\ (\A k \in Keys : t \notin Wrong(k)) /\ \A k \in Keys \ {key} : t \notin Verifying(k)
  BY <1>2 DEF Verifying, Wrong, key
<1>8. \A k \in Keys : guesses'[k] = IF k = key /\ ~right THEN Append(guesses[k], 0) ELSE guesses[k]
  BY <1>1, <1>3, <1>4
<1>9. LoginsTyped'
  <2>1. login' \in [Threads -> Logins]
    BY <1>1, <1>3, <1>4, <1>5 DEF Logins
  <2>2. ASSUME NEW k \in Keys
        PROVE  guesses'[k] \in Seq(Nat) /\ \A i \in DOMAIN guesses'[k] : guesses'[k][i] < Window
    <3> DEFINE q == guesses[k]
    <3>1. q \in Seq(Nat) /\ (\A i \in DOMAIN q : q[i] < Window) /\ 0 < Window
      BY <1>3, LoginThrottleAssumption
    <3> HIDE DEF q
    <3>2. Append(q, 0) \in Seq(Nat) /\ \A i \in DOMAIN Append(q, 0) : Append(q, 0)[i] < Window
      BY <3>1
    <3> QED BY <1>8, <3>1, <3>2 DEF q
  <2>3. guesses' \in [Keys -> Seq(Nat)]
    BY <1>1, <1>3, <2>2
  <2> QED BY <1>2, <1>3, <2>1, <2>2, <2>3 DEF LoginsTyped
<1>10. ASSUME NEW k \in Keys
       PROVE  /\ \A a \in 0 .. Window :
                    Younger(guesses'[k], a) <= Younger(failures'[k], a) + Cardinality(Wrong(k)')
              /\ Len(guesses'[k]) + Cardinality(Verifying(k)') < MaxAttempts + Cardinality(Threads)
  <2> DEFINE V == Cardinality(Verifying(k))  W == Cardinality(Wrong(k))
             N == Cardinality(Threads)
  <2>1. /\ guesses[k] \in Seq(Nat) /\ Len(guesses[k]) \in Nat
        /\ \A a \in 0 .. Window : Younger(guesses[k], a) \in Nat /\ Younger(failures[k], a) \in Nat
        /\ Verifying(k) \in SUBSET Threads /\ Wrong(k) \in SUBSET Threads /\ Verifying(k) \cap Wrong(k) = {}
    BY KeyFacts
  <2>2. /\ V \in Nat /\ W \in Nat /\ N \in Nat
        /\ t \in Verifying(k) => Cardinality(Verifying(k) \ {t}) = V - 1
        /\ Cardinality(Wrong(k) \cup {t}) = W + 1
    <3>1. /\ V \in Nat /\ N \in Nat
          /\ t \in Verifying(k) => Cardinality(Verifying(k) \ {t}) = V - 1
      BY <2>1, ThreadSets
    <3>2. Wrong(k) \cap Verifying(k) = {}
      BY <2>1
    <3>3. W \in Nat /\ (t \notin Wrong(k) => Cardinality(Wrong(k) \cup {t}) = W + 1)
      BY <2>1, <3>2, ThreadSets
    <3> QED BY <1>7, <3>1, <3>3
  <2>3. /\ \A a \in 0 .. Window : Younger(guesses[k], a) <= Younger(failures[k], a) + W
        /\ Len(guesses[k]) + V < MaxAttempts + N
    BY DEF LoginInv, Accounted, Ahead
  <2>4. MaxAttempts \in Nat /\ Window \in Nat
    BY LoginThrottleAssumption
  <2>5. CASE k = key /\ ~right
    <3>1. guesses'[k] = Append(guesses[k], 0) /\ Wrong(k)' = Wrong(k) \cup {t} /\ Verifying(k)' = Verifying(k) \ {t}
      BY <1>6, <1>8, <2>5
    <3>2. Len(guesses'[k]) = Len(guesses[k]) + 1
      BY <2>1, <3>1
    <3>3. \A a \in 0 .. Window : Younger(guesses'[k], a) <= Younger(guesses[k], a) + 1
      <4> SUFFICES ASSUME NEW a \in 0 .. Window PROVE Younger(guesses'[k], a) <= Younger(guesses[k], a) + 1
        OBVIOUS
      <4>1. Younger(guesses'[k], a) = Younger(guesses[k], a) + (IF 0 < a THEN 1 ELSE 0)
        BY <2>1, <2>4, <3>1, YoungerAppend
      <4> QED BY <2>1, <4>1
    <3>4. \A a \in 0 .. Window : Younger(guesses'[k], a) \in Nat
      BY <1>9, YoungerNat DEF LoginsTyped
    <3>5. t \in Verifying(k)
      BY <1>7, <2>5
    <3> HIDE DEF V, W, N
    <3>6. \A a \in 0 .. Window : Younger(guesses'[k], a) <= Younger(failures'[k], a) + Cardinality(Wrong(k)')
      BY <1>2, <2>1, <2>2, <2>3, <3>1, <3>3, <3>4
    <3>7. Len(guesses'[k]) + Cardinality(Verifying(k)') < MaxAttempts + Cardinality(Threads)
      BY <2>1, <2>2, <2>3, <2>4, <3>1, <3>2, <3>5 DEF N
    <3> QED BY <3>6, <3>7
  <2>6. CASE ~(k = key /\ ~right)
    <3>1. guesses'[k] = guesses[k] /\ Wrong(k)' = Wrong(k) /\ Verifying(k)' = Verifying(k) \ {t}
      BY <1>6, <1>8, <2>6
    <3>2. CASE t \in Verifying(k)
      <4>1. Cardinality(Verifying(k)') = V - 1
        BY <2>2, <3>1, <3>2
      <4> HIDE DEF V, W, N
      <4>2. \A a \in 0 .. Window : Younger(guesses'[k], a) <= Younger(failures'[k], a) + Cardinality(Wrong(k)')
        BY <1>2, <2>3, <3>1 DEF W
      <4> QED BY <2>1, <2>2, <2>3, <2>4, <3>1, <4>1, <4>2 DEF N
    <3>3. CASE t \notin Verifying(k)
      <4>1. Verifying(k)' = Verifying(k)
        BY <3>1, <3>3
      <4> QED BY <1>2, <2>3, <3>1, <4>1
    <3> QED BY <3>2, <3>3
  <2> QED BY <2>5, <2>6
<1> QED BY <1>9, <1>10, LoginInvByKeys

LEMMA RecordKeeps ==
    ASSUME LoginInv, NEW t \in Threads, Record(t)
    PROVE  LoginInv'
<1> DEFINE key == login[t].key  right == login[t].right
<1>1. /\ failures \in [Keys -> Seq(Nat)] /\ guesses \in [Keys -> Seq(Nat)]
      /\ login \in [Threads -> Logins]
      /\ \A k \in Keys : \A i \in DOMAIN guesses[k] : guesses[k][i] < Window
  BY DEF LoginInv, LoginsTyped
<1>2. login[t].stage = "record"
  BY DEF Record
<1>3. key \in Keys /\ right \in BOOLEAN
  BY <1>1, <1>2 DEF Logins, NoLogin
<1>4. /\ \A k \in Keys : failures'[k] = IF k # key THEN failures[k] ELSE IF right THEN <<>> ELSE Append(failures[k], 0)
      /\ \A k \in Keys : guesses'[k] = IF k = key /\ right THEN <<>> ELSE guesses[k]
      /\ login'[t] = NoLogin /\ \A u \in Threads \ {t} : login'[u] = login[u]
  BY <1>1, <1>3 DEF Record
<1> HIDE DEF key, right
<1>5. \A k \in Keys : /\ Verifying(k)' = Verifying(k)
                       /\ Wrong(k)' = Wrong(k) \ {t}
  BY <1>2, <1>4 DEF Verifying, Wrong, NoLogin
<1>6. LoginsTyped'
  <2>1. login' \in [Threads -> Logins]
    BY <1>1 DEF Record, Logins
  <2>2. <<>> \in Seq(Nat) /\ DOMAIN <<>> = {} /\ \A q \in Seq(Nat) : Append(q, 0) \in Seq(Nat)
    OBVIOUS
  <2>3. \A k \in Keys : failures'[k] \in Seq(Nat)
    BY <1>1, <1>4, <2>2
  <2>4. \A k \in Keys : guesses'[k] \in Seq(Nat) /\ \A i \in DOMAIN guesses'[k] : guesses'[k][i] < Window
    BY <1>1, <1>4, <2>2
  <2>5. failures' \in [Keys -> Seq(Nat)] /\ guesses' \in [Keys -> Seq(Nat)]
    BY <1>1, <2>3, <2>4 DEF Record
  <2> QED BY <2>1, <2>4, <2>5 DEF LoginsTyped
<1>7. ASSUME NEW k \in Keys
      PROVE  /\ \A a \in 0 .. Window :
                   Younger(guesses'[k], a) <= Younger(failures'[k], a) + Cardinality(Wrong(k)')
             /\ Len(guesses'[k]) + Cardinality(Verifying(k)') < MaxAttempts + Cardinality(Threads)
  <2> DEFINE V == Cardinality(Verifying(k))  W == Cardinality(Wrong(k))
             N == Cardinality(Threads)
  <2>1. /\ guesses[k] \in Seq(Nat) /\ failures[k] \in Seq(Nat) /\ Len(guesses[k]) \in Nat
        /\ \A a \in 0 .. Window : Younger(guesses[k], a) \in Nat /\ Younger(failures[k], a) \in Nat
        /\ Verifying(k) \in SUBSET Threads /\ Wrong(k) \in SUBSET Threads /\ Verifying(k) \cap Wrong(k) = {}
        /\ Wrong(k) \cap Verifying(k) = {}
    BY KeyFacts
  <2>2. V \in Nat /\ N \in Nat
    BY <2>1, ThreadSets
  <2>3. W \in Nat /\ (t \in Wrong(k) => Cardinality(Wrong(k) \ {t}) = W - 1)
    BY <2>1, ThreadSets
  <2>4. /\ \A a \in 0 .. Window : Younger(guesses[k], a) <= Younger(failures[k], a) + W
        /\ Len(guesses[k]) + V < MaxAttempts + N
    BY DEF LoginInv, Accounted, Ahead
  <2>5. MaxAttempts \in Nat /\ Window \in Nat
    BY LoginThrottleAssumption
  <2>6. \A a \in 0 .. Window : Younger(<<>>, a) = 0
    BY YoungerNone
  <2>7. t \in Wrong(k) <=> k = key /\ ~right
    BY <1>2 DEF Wrong, key, right
  <2>8. Cardinality(Wrong(k)') = IF k = key /\ ~right THEN W - 1 ELSE W
    <3>1. CASE t \in Wrong(k)
      BY <1>5, <2>3, <2>7, <3>1
    <3>2. CASE t \notin Wrong(k)
      <4>1. Wrong(k)' = Wrong(k)
        BY <1>5, <3>2
      <4> QED BY <2>7, <3>2, <4>1
    <3> QED BY <3>1, <3>2
  <2>9. CASE k # key
    BY <1>4, <1>5, <2>4, <2>8, <2>9
  <2>10. CASE k = key /\ right
    <3>1. guesses'[k] = <<>> /\ failures'[k] = <<>> /\ Cardinality(Wrong(k)') = W /\ Verifying(k)' = Verifying(k)
      BY <1>4, <1>5, <2>8, <2>10
    <3>2. Len(<<>>) = 0
      OBVIOUS
    <3> HIDE DEF V, W, N
    <3>3. \A a \in 0 .. Window : Younger(guesses'[k], a) <= Younger(failures'[k], a) + Cardinality(Wrong(k)')
      BY <2>3, <2>6, <3>1
    <3>4. Len(guesses'[k]) + Cardinality(Verifying(k)') < MaxAttempts + Cardinality(Threads)
      BY <2>1, <2>2, <2>4, <2>5, <3>1, <3>2 DEF V, N
    <3> QED BY <3>3, <3>4
  <2>11. CASE k = key /\ ~right
    <3>1. guesses'[k] = guesses[k] /\ failures'[k] = Append(failures[k], 0) /\ Cardinality(Wrong(k)') = W - 1
          /\ Verifying(k)' = Verifying(k)
      BY <1>4, <1>5, <2>8, <2>11
    <3>2. ASSUME NEW a \in 0 .. Window
          PROVE  Younger(guesses'[k], a) <= Younger(failures'[k], a) + Cardinality(Wrong(k)')
      <4>1. CASE a = 0
        <5>1. {i \in DOMAIN guesses[k] : guesses[k][i] < 0} = {}
          BY <2>1
        <5>2. Younger(guesses[k], 0) = 0
          BY <5>1, FS_EmptySet DEF Younger
        <5>3. Younger(failures'[k], a) \in Nat
          BY <1>6, YoungerNat DEF LoginsTyped
        <5>4. Cardinality(Wrong(k)') \in Nat
          <6>1. Wrong(k) \ {t} \in SUBSET Threads /\ (Wrong(k) \ {t}) \cap {} = {} /\ {} \in SUBSET Threads
            BY <2>1
          <6>2. Cardinality(Wrong(k) \ {t}) \in Nat
            BY <6>1, ThreadSets
          <6> QED BY <1>5, <6>2
        <5> QED BY <3>1, <4>1, <5>2, <5>3, <5>4
      <4>2. CASE a # 0
        <5>0. failures[k] \in Seq(Nat) /\ a \in Nat /\ 0 \in Nat /\ failures'[k] = Append(failures[k], 0)
          BY <2>1, <2>5, <3>1
        <5>1. Younger(failures'[k], a) = Younger(failures[k], a) + (IF 0 < a THEN 1 ELSE 0)
          BY <5>0, YoungerAppend
        <5>2. 0 < a
          BY <2>5, <4>2
        <5> HIDE DEF V, W, N
        <5> QED BY <2>1, <2>3, <2>4, <3>1, <5>1, <5>2
      <4> QED BY <4>1, <4>2
    <3> QED BY <2>4, <3>1, <3>2
  <2> QED BY <2>9, <2>10, <2>11, <1>3
<1> QED BY <1>6, <1>7, LoginInvByKeys

LEMMA TickKeeps ==
    ASSUME LoginInv, Tick
    PROVE  LoginInv'
<1>1. /\ failures \in [Keys -> Seq(Nat)] /\ guesses \in [Keys -> Seq(Nat)]
      /\ login \in [Threads -> Logins]
  BY DEF LoginInv, LoginsTyped
<1>2. login' = login /\ \A k \in Keys : /\ failures'[k] = Older(failures[k])
                                         /\ guesses'[k] = Within(Older(guesses[k]), Window)
  BY DEF Tick
<1>3. \A k \in Keys : Verifying(k)' = Verifying(k) /\ Wrong(k)' = Wrong(k)
  BY <1>2 DEF Verifying, Wrong
<1>4. Window \in Nat /\ Window > 0 /\ Window \in 1 .. Window /\ MaxAttempts \in Nat
  BY LoginThrottleAssumption
<1>5. \A k \in Keys :
         /\ Older(guesses[k]) \in Seq(Nat) /\ failures'[k] \in Seq(Nat)
         /\ guesses'[k] \in Seq(Nat)
         /\ \A i \in DOMAIN guesses'[k] : guesses'[k][i] < Window
         /\ \A a \in 0 .. Window : Younger(guesses'[k], a) = Younger(Older(guesses[k]), a)
  <2> SUFFICES ASSUME NEW k \in Keys
               PROVE  /\ Older(guesses[k]) \in Seq(Nat) /\ failures'[k] \in Seq(Nat)
                      /\ guesses'[k] \in Seq(Nat)
                      /\ \A i \in DOMAIN guesses'[k] : guesses'[k][i] < Window
                      /\ \A a \in 0 .. Window : Younger(guesses'[k], a) = Younger(Older(guesses[k]), a)
    OBVIOUS
  <2>1. Older(guesses[k]) \in Seq(Nat) /\ Older(failures[k]) \in Seq(Nat)
    BY <1>1, OlderSeq
  <2> DEFINE q == Older(guesses[k])
  <2>2. guesses'[k] = Within(q, Window) /\ failures'[k] = Older(failures[k])
    BY <1>2
  <2> HIDE DEF q
  <2>3. q \in Seq(Nat)
    BY <2>1 DEF q
  <2>4. /\ Within(q, Window) \in Seq(Nat)
        /\ \A i \in DOMAIN Within(q, Window) : Within(q, Window)[i] < Window
        /\ \A a \in 0 .. Window : Younger(Within(q, Window), a) = Younger(q, a)
    BY <1>4, <2>3, WithinFacts
  <2> QED BY <2>1, <2>2, <2>4 DEF q
<1>6. LoginsTyped'
  <2>1. failures' \in [Keys -> Seq(Nat)] /\ guesses' \in [Keys -> Seq(Nat)]
    BY <1>5 DEF Tick
  <2> QED BY <1>1, <1>2, <1>5, <2>1 DEF LoginsTyped
<1>7. ASSUME NEW k \in Keys
      PROVE  /\ \A a \in 0 .. Window :
                   Younger(guesses'[k], a) <= Younger(failures'[k], a) + Cardinality(Wrong(k)')
             /\ Len(guesses'[k]) + Cardinality(Verifying(k)') < MaxAttempts + Cardinality(Threads)
  <2> DEFINE V == Cardinality(Verifying(k))  W == Cardinality(Wrong(k))
             N == Cardinality(Threads)
  <2>1. /\ guesses[k] \in Seq(Nat) /\ failures[k] \in Seq(Nat) /\ Len(guesses[k]) \in Nat
        /\ Len(guesses[k]) = Younger(guesses[k], Window)
        /\ \A a \in 0 .. Window : Younger(guesses[k], a) \in Nat /\ Younger(failures[k], a) \in Nat
        /\ Verifying(k) \in SUBSET Threads /\ Wrong(k) \in SUBSET Threads /\ Verifying(k) \cap Wrong(k) = {}
    BY KeyFacts
  <2>2. IsFiniteSet(Verifying(k)) /\ IsFiniteSet(Wrong(k)) /\ IsFiniteSet(Threads)
    BY <2>1, LoginThrottleAssumption, FS_Subset
  <2>3. V \in Nat /\ W \in Nat /\ N \in Nat
    BY <2>2, FS_CardinalityType
  <2>4. /\ \A a \in 0 .. Window : Younger(guesses[k], a) <= Younger(failures[k], a) + W
        /\ Len(guesses[k]) + V < MaxAttempts + N
    BY DEF LoginInv, Accounted, Ahead
  <2>5. \A a \in 1 .. Window : /\ Younger(guesses'[k], a) = Younger(guesses[k], a - 1)
                               /\ Younger(failures'[k], a) = Younger(failures[k], a - 1)
    <3> SUFFICES ASSUME NEW a \in 1 .. Window
                 PROVE  /\ Younger(guesses'[k], a) = Younger(guesses[k], a - 1)
                        /\ Younger(failures'[k], a) = Younger(failures[k], a - 1)
      OBVIOUS
    <3>1. a \in 0 .. Window
      BY <1>4
    <3>2. Younger(Older(guesses[k]), a) = Younger(guesses[k], a - 1)
      BY <2>1, YoungerLater
    <3>3. Younger(Older(failures[k]), a) = Younger(failures[k], a - 1)
      BY <2>1, YoungerLater
    <3>4. Younger(guesses'[k], a) = Younger(Older(guesses[k]), a)
      BY <1>5, <3>1
    <3>5. failures'[k] = Older(failures[k])
      BY <1>2
    <3> QED BY <3>2, <3>3, <3>4, <3>5
  <2>6. ASSUME NEW a \in 0 .. Window
        PROVE  Younger(guesses'[k], a) <= Younger(failures'[k], a) + W
    <3>1. CASE a = 0
      <4>1. {i \in DOMAIN guesses'[k] : guesses'[k][i] < 0} = {}
        <5>1. guesses'[k] \in Seq(Nat)
          BY <1>5
        <5> QED BY <5>1
      <4>2. Younger(guesses'[k], 0) = 0
        BY <4>1, FS_EmptySet DEF Younger
      <4>3. Younger(failures'[k], a) \in Nat
        BY <1>5, YoungerNat
      <4> QED BY <2>3, <3>1, <4>2, <4>3
    <3>2. CASE a # 0
      <4>1. a \in 1 .. Window /\ a - 1 \in 0 .. Window
        BY <1>4, <3>2
      <4> QED BY <2>4, <2>5, <4>1
    <3> QED BY <3>1, <3>2
  <2>7. Len(guesses'[k]) <= Len(guesses[k])
    <3>1. Len(guesses'[k]) = Younger(guesses'[k], Window)
      BY <1>4, <1>5, AllYounger
    <3>2. Len(guesses'[k]) = Younger(guesses[k], Window - 1)
      BY <1>4, <2>5, <3>1
    <3>3. {i \in DOMAIN guesses[k] : guesses[k][i] < Window - 1} \subseteq {i \in DOMAIN guesses[k] : guesses[k][i] < Window}
      BY <1>4, <2>1
    <3>4. IsFiniteSet({i \in DOMAIN guesses[k] : guesses[k][i] < Window})
      BY <2>1, YoungerNat
    <3>5. Younger(guesses[k], Window - 1) <= Younger(guesses[k], Window)
      BY <3>3, <3>4, FS_Subset DEF Younger
    <3> QED BY <2>1, <3>2, <3>5
  <2>8. Len(guesses'[k]) \in Nat
    <3>1. guesses'[k] \in Seq(Nat)
      BY <1>5
    <3> QED BY <3>1
  <2>9. Len(guesses'[k]) + V < MaxAttempts + N
    <3> HIDE DEF V, N
    <3> QED BY <1>4, <2>1, <2>3, <2>4, <2>7, <2>8
  <2> QED BY <1>3, <2>6, <2>9
<1> QED BY <1>6, <1>7, LoginInvByKeys

LEMMA LoginInvNext == LoginInv /\ [ThrottleNext]_throttleVars => LoginInv'
<1> SUFFICES ASSUME LoginInv, [ThrottleNext]_throttleVars PROVE LoginInv'
  OBVIOUS
<1>1. CASE Tick
  BY <1>1, TickKeeps
<1>2. ASSUME NEW t \in Threads, Verify(t) PROVE LoginInv'
  BY <1>2, VerifyKeeps
<1>3. ASSUME NEW t \in Threads, Record(t) PROVE LoginInv'
  BY <1>3, RecordKeeps
<1>4. ASSUME NEW t \in Threads, NEW k \in Keys, Check(t, k) PROVE LoginInv'
  BY <1>4, CheckKeeps
<1>5. CASE UNCHANGED throttleVars
  BY <1>5 DEF throttleVars, LoginInv, LoginsTyped, Accounted, Ahead, Verifying, Wrong
<1> QED BY <1>1, <1>2, <1>3, <1>4, <1>5 DEF ThrottleNext

\* ThrottleSpec => []FewGuesses, for any number of threads and keys, any limit and any
\* window: _failures and its lock bound the wrong passwords that are tried, although
\* authenticate releases the lock while it verifies one.
THEOREM GuessesAreBounded == ThrottleSpec => []FewGuesses
<1>1. LoginInv => FewGuesses
  <2> SUFFICES ASSUME LoginInv, NEW k \in Keys
               PROVE  Len(guesses[k]) < MaxAttempts + Cardinality(Threads)
    BY DEF FewGuesses
  <2>1. Len(guesses[k]) + Cardinality(Verifying(k)) < MaxAttempts + Cardinality(Threads)
    BY DEF LoginInv, Ahead
  <2>2. Verifying(k) \in SUBSET Threads /\ Len(guesses[k]) \in Nat
    BY KeyFacts
  <2>3. IsFiniteSet(Verifying(k)) /\ IsFiniteSet(Threads)
    BY <2>2, LoginThrottleAssumption, FS_Subset
  <2>4. Cardinality(Verifying(k)) \in Nat /\ Cardinality(Threads) \in Nat /\ MaxAttempts \in Nat
    BY <2>3, LoginThrottleAssumption, FS_CardinalityType
  <2> QED BY <2>1, <2>2, <2>4
<1> QED BY <1>1, LoginInvInit, LoginInvNext, PTL DEF ThrottleSpec
=============================================================================
