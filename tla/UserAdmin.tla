------------------------------ MODULE UserAdmin ------------------------------
(***************************************************************************)
(* Users, their sessions and the requests that administer them:            *)
(* app/services/auth_service.py behind app/api/auth_routes.py and          *)
(* security.py.  Every repository call is a transaction of its own, so a   *)
(* request is several steps; requests of different clients interleave.     *)
(***************************************************************************)
EXTENDS Naturals, FiniteSets

CONSTANTS
    Ids,            \* user ids, handed out in order
    Names,          \* user names, up to case (the column is NOCASE)
    Admin,          \* DBSAFE_ADMIN_USERNAME
    Clients,        \* browsers, each with a session and one request at a time
    Together        \* may requests that change or delete users overlap?

ASSUME UserAdminAssumption ==
    /\ IsFiniteSet(Ids) /\ Ids = 1 .. Cardinality(Ids)
    /\ Admin \in Names /\ Together \in BOOLEAN

VARIABLES
    users,      \* users[u] : the row of u, or Nobody
    last,       \* the highest id ever handed out
    session,    \* session[c] : who c is logged in as: an id, and the name it then had
    request,    \* request[c] : the request of c, or Idle
    up

vars == <<users, last, session, request, up>>

Nobody == [name |-> "none", role |-> "none"]
LoggedOut == [id |-> 0, name |-> "none"]
Idle == [kind |-> "none"]
Roles == {"admin", "operator"}

Rows == {u \in Ids : users[u] # Nobody}
RoleOf(u) == IF u \in Ids THEN users[u].role ELSE "none"
CountAdmins == Cardinality({u \in Rows : users[u].role = "admin"})
Known(name) == \E u \in Rows : users[u].name = name

Operations == [kind : {"create"}, name : Names, role : Roles]
         \cup [kind : {"role"}, user : Ids, role : Roles]
         \cup [kind : {"delete"}, user : Ids]
At(stage, op, seen) == [kind |-> "request", stage |-> stage, op |-> op, seen |-> seen]
Move(c, stage, seen) == request' = [request EXCEPT ![c] = At(stage, request[c].op, seen)]
End(c) == request' = [request EXCEPT ![c] = Idle]
In(c, stage) == up /\ request[c] # Idle /\ request[c].stage = stage

----------------------------------------------------------------------------
(* Sessions *)

Login(c) ==
    /\ up /\ request[c] = Idle
    /\ \E u \in Rows : session' = [session EXCEPT ![c] = [id |-> u, name |-> users[u].name]]
    /\ UNCHANGED <<users, last, request, up>>

Logout(c) ==
    /\ up /\ request[c] = Idle
    /\ session' = [session EXCEPT ![c] = LoggedOut]
    /\ UNCHANGED <<users, last, request, up>>

\* current_user(), once per request
CurrentUser(c) == session[c].id

\* admin_required
MayAdminister(u) == RoleOf(u) = "admin"

Changing(c) == request[c] # Idle /\ request[c].op.kind # "create"

\* A PUT or DELETE goes on to fetch the row, a POST to look for the name.
Begin(c) ==
    /\ up /\ request[c] = Idle
    /\ MayAdminister(CurrentUser(c))
    /\ \E op \in Operations :
          /\ Together \/ op.kind = "create" \/ \A d \in Clients : ~Changing(d)
          /\ request' = [request EXCEPT ![c] = At("fetch", op, Nobody)]
    /\ UNCHANGED <<users, last, session, up>>

\* user_repository.get, or get_by_username; deleting oneself is refused here.
Fetch(c) ==
    LET op == request[c].op
    IN /\ In(c, "fetch")
       /\ \/ op.kind = "create" /\ ~Known(op.name) /\ Move(c, "write", Nobody)
          \/ op.kind # "create" /\ op.user \in Rows
             /\ ~(op.kind = "delete" /\ op.user = session[c].id)
             /\ Move(c, "count", users[op.user])
          \/ op.kind = "create" /\ Known(op.name) /\ End(c)
          \/ op.kind # "create" /\ op.user \notin Rows /\ End(c)
          \/ op.kind = "delete" /\ op.user = session[c].id /\ End(c)
       /\ UNCHANGED <<users, last, session, up>>

\* The row as it was fetched is that of an administrator, who is to be none.
Removes(c) ==
    /\ request[c].seen.role = "admin"
    /\ request[c].op.kind = "delete" \/ request[c].op.role # "admin"

\* Mutated form: only deletion counts the administrators.
DeletionGuarded(c) == request[c].op.kind = "role" \/ ~Removes(c) \/ CountAdmins > 1

Guarded(c) == ~Removes(c) \/ CountAdmins > 1

Count(c) ==
    /\ In(c, "count")
    /\ \/ Guarded(c) /\ Move(c, "write", request[c].seen)
       \/ ~Guarded(c) /\ End(c)
    /\ UNCHANGED <<users, last, session, up>>

\* Mutated form: INTEGER PRIMARY KEY without AUTOINCREMENT.
HighestRow == IF Rows = {} THEN 0 ELSE CHOOSE u \in Rows : \A v \in Rows : v <= u

Highest == last

Unique(name) == ~Known(name)

Insert(name, role) ==
    /\ Highest + 1 \in Ids
    /\ users' = [users EXCEPT ![Highest + 1] = [name |-> name, role |-> role]]
    /\ last' = Highest + 1

\* An UPDATE of a row that is gone changes nothing; an INSERT of a name that
\* has been taken since raises.
Write(c) ==
    LET op == request[c].op
    IN /\ In(c, "write")
       /\ \/ op.kind = "create" /\ Unique(op.name) /\ Insert(op.name, op.role)
          \/ op.kind = "create" /\ ~Unique(op.name) /\ UNCHANGED <<users, last>>
          \/ op.kind = "role" /\ UNCHANGED last
             /\ users' = [u \in Ids |-> IF u = op.user /\ u \in Rows
                                        THEN [users[u] EXCEPT !.role = op.role] ELSE users[u]]
          \/ op.kind = "delete" /\ UNCHANGED last
             /\ users' = [users EXCEPT ![op.user] = Nobody]
       /\ End(c)
       /\ UNCHANGED <<session, up>>

----------------------------------------------------------------------------

\* Sessions are cookies: they outlive the server.
Crash ==
    /\ up /\ up' = FALSE
    /\ request' = [c \in Clients |-> Idle]
    /\ UNCHANGED <<users, last, session>>

\* init_database creates an administrator when there is no user at all.
Start ==
    /\ ~up /\ up' = TRUE
    /\ IF Rows = {} THEN Insert(Admin, "admin") ELSE UNCHANGED <<users, last>>
    /\ UNCHANGED <<session, request>>

Init ==
    /\ users = [u \in Ids |-> Nobody] /\ last = 0
    /\ session = [c \in Clients |-> LoggedOut]
    /\ request = [c \in Clients |-> Idle] /\ up = FALSE

Next ==
    \/ \E c \in Clients : Login(c) \/ Logout(c) \/ Begin(c) \/ Fetch(c) \/ Count(c) \/ Write(c)
    \/ Crash \/ Start

Spec == Init /\ [][Next]_vars

----------------------------------------------------------------------------
(* Properties *)

\* "At least one administrator is required": whatever is requested, someone can
\* administer the users of a running server.
AtLeastOneAdmin == up => CountAdmins > 0

\* However requests overlap, no two users have the same name.
NamesDiffer == \A u, v \in Rows : users[u].name = users[v].name => u = v

\* A session never turns into that of another user, though its own may have
\* been deleted and others created since.
SessionIsItsUsers ==
    \A c \in Clients : RoleOf(session[c].id) # "none" => users[session[c].id].name = session[c].name
=============================================================================
