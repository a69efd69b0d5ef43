------------------------------ MODULE Scheduler ------------------------------
(***************************************************************************)
(* Schedules, kept twice: as rows of the metadata store and as jobs of the *)
(* in-memory scheduler (app/services/scheduler_service.py).  The requests  *)
(* of app/api/schedule_routes.py and the deletion of a connection change   *)
(* both, step by step; the jobs, and "run now", execute schedules.         *)
(***************************************************************************)
EXTENDS Naturals, FiniteSets

CONSTANTS
    Ids,            \* schedule ids, handed out in order
    Connections,
    Triggers,       \* frequency, time, day and cron expression of a schedule
    Clients,        \* each with one request at a time
    Workers,        \* threads that execute schedules
    MaxRequests,    \* bound on the requests in a behaviour
    Together,       \* may requests of several clients overlap?
    StoreFails      \* may a request's access to the metadata store raise?

ASSUME SchedulerAssumption ==
    /\ IsFiniteSet(Ids) /\ Ids = 1 .. Cardinality(Ids) /\ MaxRequests \in Nat
    /\ Together \in BOOLEAN /\ StoreFails \in BOOLEAN
    /\ "none" \notin Connections \cup Triggers

VARIABLES
    rows,       \* rows[s] : the row of schedule s, or Gone
    jobs,       \* jobs[s] : the trigger s is registered with, or "none"
    connections,\* the connections there are
    last,       \* the highest schedule id ever handed out
    request,    \* request[c] : the request of c, or Idle
    runs,       \* runs[w] : the execution of a schedule by w, or Idle
    asked,      \* requests so far
    up,         \* is the server running?
    half        \* history: schedules a failing request left between row and job

vars == <<rows, jobs, connections, last, request, runs, asked, up, half>>
edits == <<rows, jobs, connections, last, request, half>>

Gone == [connection |-> "none", trigger |-> "none", enabled |-> FALSE, status |-> "none"]
Idle == [kind |-> "none"]
NoJobs == [s \in Ids |-> "none"]
Rows == {s \in Ids : rows[s] # Gone}

\* A PUT names some fields; one at a time is enough.
Changes == [connection : Connections] \cup [trigger : Triggers] \cup [enabled : BOOLEAN]
Operations == [kind : {"create"}, connection : Connections, trigger : Triggers, enabled : BOOLEAN]
         \cup [kind : {"update"}, id : Ids, to : Changes]
         \cup [kind : {"delete"}, id : Ids]
         \cup [kind : {"disconnect"}, connection : Connections]

\* What a request has read of its row, and the jobs it is still to remove.
At(stage, op, id, seen, left) ==
    [kind |-> "request", stage |-> stage, op |-> op, id |-> id, seen |-> seen, left |-> left]
Go(c, stage, id, seen, left) == request' = [request EXCEPT ![c] = At(stage, @.op, id, seen, left)]
End(c) == request' = [request EXCEPT ![c] = Idle]
In(c, stage) == up /\ request[c] # Idle /\ request[c].stage = stage

----------------------------------------------------------------------------
(* Requests *)

Ask(c) ==
    /\ up /\ request[c] = Idle /\ asked < MaxRequests
    /\ Together \/ \A d \in Clients : request[d] = Idle
    /\ \E op \in Operations : request' = [request EXCEPT ![c] = At("find", op, 0, Gone, {})]
    /\ asked' = asked + 1
    /\ UNCHANGED <<rows, jobs, connections, last, runs, up, half>>

\* Mutated form: the cascade will do.
NoneFor(connection) == {}

ListFor(connection) == {s \in Rows : rows[s].connection = connection}

\* get_connection, or _get with 404; then what there is to unregister.
Find(c) ==
    LET op == request[c].op
    IN /\ In(c, "find")
       /\ \/ op.kind = "create" /\ op.connection \in connections /\ Go(c, "write", 0, Gone, {})
          \/ op.kind = "update" /\ op.id \in Rows /\ Go(c, "write", op.id, rows[op.id], {})
          \/ op.kind = "delete" /\ op.id \in Rows /\ Go(c, "unregister", op.id, Gone, {op.id})
          \/ /\ op.kind = "disconnect" /\ op.connection \in connections
             /\ Go(c, "unregister", 0, Gone, ListFor(op.connection))
          \/ op.kind \in {"create", "disconnect"} /\ op.connection \notin connections /\ End(c)
          \/ op.kind \in {"update", "delete"} /\ op.id \notin Rows /\ End(c)
       /\ UNCHANGED <<rows, jobs, connections, last, runs, asked, up, half>>

Merged(seen, to) == [f \in DOMAIN seen |-> IF f \in DOMAIN to THEN to[f] ELSE seen[f]]

\* Mutated form: the row as it was read is written back.
WholeRow(row, data) == data

\* last_run_at and last_status are not part of what is merged.
Columns(row, data) == [data EXCEPT !.status = row.status]

\* The connection is checked by a look-up and by the foreign key.  The UPDATE of
\* a row that is gone changes nothing.
Write(c) ==
    LET op == request[c].op
        data == Merged(request[c].seen, op.to)
        id == request[c].id
    IN /\ In(c, "write")
       /\ \/ /\ op.kind = "create" /\ op.connection \in connections /\ last + 1 \in Ids
             /\ rows' = [rows EXCEPT ![last + 1] = [connection |-> op.connection,
                           trigger |-> op.trigger, enabled |-> op.enabled, status |-> "none"]]
             /\ last' = last + 1
             /\ Go(c, "reread", last + 1, Gone, {})
          \/ /\ op.kind = "update" /\ data.connection \in connections
             /\ rows' = IF id \in Rows THEN [rows EXCEPT ![id] = Columns(@, data)] ELSE rows
             /\ Go(c, "reread", id, Gone, {}) /\ UNCHANGED last
          \/ /\ op.kind = "create" /\ (op.connection \notin connections \/ last + 1 \notin Ids)
             /\ End(c) /\ UNCHANGED <<rows, last>>
          \/ /\ op.kind = "update" /\ data.connection \notin connections
             /\ End(c) /\ UNCHANGED <<rows, last>>
       /\ UNCHANGED <<jobs, connections, runs, asked, up, half>>

Reread(c) ==
    LET id == request[c].id
    IN /\ In(c, "reread")
       /\ IF id \in Rows THEN Go(c, "unregister", id, rows[id], {id}) ELSE End(c)
       /\ UNCHANGED <<rows, jobs, connections, last, runs, asked, up, half>>

\* unregister_schedule, one job at a time; register_schedule begins with it.
Unregister(c) ==
    LET r == request[c]
    IN /\ In(c, "unregister")
       /\ \/ \E s \in r.left : /\ jobs' = [jobs EXCEPT ![s] = "none"]
                               /\ Go(c, "unregister", r.id, r.seen, r.left \ {s})
                               /\ UNCHANGED half
          \/ /\ r.left = {} /\ UNCHANGED jobs
             /\ \/ r.op.kind \in {"delete", "disconnect"}
                   /\ Go(c, "remove", r.id, Gone, {}) /\ UNCHANGED half
                \/ r.op.kind \in {"create", "update"} /\ r.seen.enabled
                   /\ Go(c, "register", r.id, r.seen, {}) /\ UNCHANGED half
                \/ r.op.kind \in {"create", "update"} /\ ~r.seen.enabled
                   /\ End(c) /\ half' = half \ {r.id}
       /\ UNCHANGED <<rows, connections, last, runs, asked, up>>

\* add_job with replace_existing
Register(c) ==
    /\ In(c, "register")
    /\ jobs' = [jobs EXCEPT ![request[c].id] = request[c].seen.trigger]
    /\ End(c) /\ half' = half \ {request[c].id}
    /\ UNCHANGED <<rows, connections, last, runs, asked, up>>

\* The rows that a deletion takes away: a connection takes its schedules with it
\* (ON DELETE CASCADE).
Doomed(op) ==
    IF op.kind = "delete" THEN {op.id} ELSE {s \in Rows : rows[s].connection = op.connection}

RemoveRows(c) ==
    LET op == request[c].op
        removed == Doomed(op)
    IN /\ In(c, "remove")
       /\ rows' = [s \in Ids |-> IF s \in removed THEN Gone ELSE rows[s]]
       /\ connections' = IF op.kind = "delete" THEN connections ELSE connections \ {op.connection}
       /\ End(c) /\ half' = half \ removed
       /\ UNCHANGED <<jobs, last, runs, asked, up>>

\* The access to the metadata store raises: the request ends with 500 where it
\* is.  The row may be written and its job not registered, or the job taken out
\* and the row not deleted.
StoreRaises(c) ==
    LET r == request[c]
    IN /\ StoreFails /\ up /\ r # Idle /\ r.stage \in {"find", "write", "reread", "remove"}
       /\ half' = half \cup (CASE r.stage = "reread" -> {r.id}
                              [] r.stage = "remove" -> Doomed(r.op)
                              [] OTHER -> {})
       /\ End(c)
       /\ UNCHANGED <<rows, jobs, connections, last, runs, asked, up>>

----------------------------------------------------------------------------
(* Executions *)

Execution(s, byJob) == [kind |-> "run", schedule |-> s, byJob |-> byJob, stage |-> "read", status |-> "none"]
ByJob(w, s) == runs[w] # Idle /\ runs[w].byJob /\ runs[w].schedule = s

\* The trigger is due; max_instances = 1.
Fire(s, w) ==
    /\ up /\ jobs[s] # "none" /\ runs[w] = Idle /\ \A v \in Workers : ~ByJob(v, s)
    /\ runs' = [runs EXCEPT ![w] = Execution(s, TRUE)]
    /\ UNCHANGED <<edits, asked, up>>

RunNow(s, w) ==
    /\ up /\ s \in Rows /\ runs[w] = Idle /\ asked < MaxRequests
    /\ runs' = [runs EXCEPT ![w] = Execution(s, FALSE)]
    /\ asked' = asked + 1
    /\ UNCHANGED <<edits, up>>

\* execute_schedule: nothing to do for a schedule that is gone.
ReadSchedule(w) ==
    /\ up /\ runs[w] # Idle /\ runs[w].stage = "read"
    /\ runs' = [runs EXCEPT ![w] = IF @.schedule \in Rows THEN [@ EXCEPT !.stage = "backup"] ELSE Idle]
    /\ UNCHANGED <<edits, asked, up>>

Backup(w) ==
    /\ up /\ runs[w] # Idle /\ runs[w].stage = "backup"
    /\ \E status \in {"success", "failed"} :
          runs' = [runs EXCEPT ![w] = [@ EXCEPT !.stage = "record", !.status = status]]
    /\ UNCHANGED <<edits, asked, up>>

\* Recording the outcome (apply_retention comes next).
Record(w) ==
    LET s == runs[w].schedule
    IN /\ up /\ runs[w] # Idle /\ runs[w].stage = "record"
       /\ rows' = IF s \in Rows THEN [rows EXCEPT ![s].status = runs[w].status] ELSE rows
       /\ runs' = [runs EXCEPT ![w] = Idle]
       /\ UNCHANGED <<jobs, connections, last, request, asked, up, half>>

----------------------------------------------------------------------------
(* The server *)

Crash ==
    /\ up /\ up' = FALSE
    /\ jobs' = NoJobs
    /\ request' = [c \in Clients |-> Idle] /\ runs' = [w \in Workers |-> Idle]
    /\ UNCHANGED <<rows, connections, last, asked, half>>

\* Mutated form: jobs are only registered by requests.
NotLoaded == NoJobs

\* list_enabled, registered one by one before the first request
Loaded == [s \in Ids |-> IF rows[s].enabled THEN rows[s].trigger ELSE "none"]

Start ==
    /\ ~up /\ up' = TRUE
    /\ jobs' = Loaded /\ half' = {}
    /\ UNCHANGED <<rows, connections, last, request, runs, asked>>

Init ==
    /\ rows = [s \in Ids |-> Gone] /\ jobs = NoJobs
    /\ connections = Connections /\ last = 0
    /\ request = [c \in Clients |-> Idle] /\ runs = [w \in Workers |-> Idle]
    /\ asked = 0 /\ up = FALSE /\ half = {}

Step(c) ==
    \/ Find(c) \/ Write(c) \/ Reread(c) \/ Unregister(c) \/ Register(c) \/ RemoveRows(c)
    \/ StoreRaises(c)
Execute(w) == ReadSchedule(w) \/ Backup(w) \/ Record(w)

Next ==
    \/ \E c \in Clients : Ask(c) \/ Step(c)
    \/ \E w \in Workers : Execute(w) \/ \E s \in Ids : Fire(s, w) \/ RunNow(s, w)
    \/ Crash \/ Start

Spec == Init /\ [][Next]_vars

\* Requests and executions go on, and the scheduler's thread runs what is due.
FairSpec ==
    /\ Spec
    /\ \A c \in Clients : WF_vars(Step(c))
    /\ \A w \in Workers : WF_vars(Execute(w))
    /\ \A s \in Ids : WF_vars(\E w \in Workers : Fire(s, w))

----------------------------------------------------------------------------
(* Properties *)

AtRest == up /\ \A c \in Clients : request[c] = Idle

\* Between requests the scheduler has exactly the jobs of the enabled rows, with
\* their triggers: after edits, deletions, cascades and restarts.  A schedule is
\* off only from a request that failed between its row and its job until the next
\* request about it that succeeds, or the next start.
JobsAgree == AtRest => \A s \in Ids \ half : jobs[s] = Loaded[s]

\* The outcome shown for a schedule is that of the last execution to end: a PUT
\* that began before its end does not bring an older one back.
StatusIsTheLastOne ==
    [][\A s \in Ids : rows'[s].status # rows[s].status /\ rows'[s] # Gone =>
          \E w \in Workers : /\ runs[w] # Idle /\ runs'[w] = Idle
                             /\ runs[w].schedule = s /\ runs[w].status = rows'[s].status]_vars

\* An enabled schedule is executed again and again, unless it is disabled or
\* deleted, a request about it fails half-way, or the server stops.
EnabledRuns ==
    \A s \in Ids : (up /\ rows[s].enabled) ~>
        ((\E w \in Workers : ByJob(w, s)) \/ ~rows[s].enabled \/ s \in half \/ ~up)
=============================================================================
