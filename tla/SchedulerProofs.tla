--------------------------- MODULE SchedulerProofs ---------------------------
(***************************************************************************)
(* Rows and jobs of schedules agree when requests come one after the       *)
(* other: for every number of schedules, connections and workers.          *)
(***************************************************************************)
EXTENDS Scheduler, FiniteSetTheorems, TLAPS

Statuses == {"none", "success", "failed"}
RowType == [connection : Connections, trigger : Triggers, enabled : BOOLEAN, status : Statuses]
Requests == {Idle} \cup
    [kind : {"request"}, stage : {"find", "write", "reread", "unregister", "register", "remove"},
     op : Operations, id : Nat, seen : RowType \cup {Gone}, left : SUBSET Ids]
Executions == {Idle} \cup
    [kind : {"run"}, schedule : Ids, byJob : BOOLEAN, stage : {"read", "backup", "record"},
     status : Statuses]

\* Merging a change into a row gives a row.
LEMMA MergedType ==
    ASSUME NEW seen \in RowType, NEW to \in Changes
    PROVE  Merged(seen, to) \in RowType
<1>1. DOMAIN seen = {"connection", "trigger", "enabled", "status"}
  BY DEF RowType
<1>2. CASE to \in [connection : Connections]
  <2>1. DOMAIN to = {"connection"} /\ to["connection"] \in Connections
    BY <1>2
  <2>2. Merged(seen, to) = [connection |-> to.connection, trigger |-> seen.trigger, enabled |-> seen.enabled, status |-> seen.status]
    BY <1>1, <2>1 DEF Merged, RowType
  <2> QED BY <2>1, <2>2 DEF RowType
<1>3. CASE to \in [trigger : Triggers]
  <2>1. DOMAIN to = {"trigger"} /\ to["trigger"] \in Triggers
    BY <1>3
  <2>2. Merged(seen, to) = [connection |-> seen.connection, trigger |-> to.trigger, enabled |-> seen.enabled, status |-> seen.status]
    BY <1>1, <2>1 DEF Merged, RowType
  <2> QED BY <2>1, <2>2 DEF RowType
<1>4. CASE to \in [enabled : BOOLEAN]
  <2>1. DOMAIN to = {"enabled"} /\ to["enabled"] \in BOOLEAN
    BY <1>4
  <2>2. Merged(seen, to) = [connection |-> seen.connection, trigger |-> seen.trigger, enabled |-> to.enabled, status |-> seen.status]
    BY <1>1, <2>1 DEF Merged, RowType
  <2> QED BY <2>1, <2>2 DEF RowType
<1> QED BY <1>2, <1>3, <1>4 DEF Changes

Typed ==
    /\ rows \in [Ids -> RowType \cup {Gone}] /\ jobs \in [Ids -> Triggers \cup {"none"}]
    /\ request \in [Clients -> Requests] /\ runs \in [Workers -> Executions]
    /\ last \in Nat

\* The job of s is that of its row, or a failed request has parted them.
Agrees(s) == s \in half \/ jobs[s] = IF rows[s].enabled THEN rows[s].trigger ELSE "none"

\* Two rows with one job: only the outcome may differ.
Alike(a, b) == a.connection = b.connection /\ a.trigger = b.trigger /\ a.enabled = b.enabled

Busy(c) == request[c] # Idle
OneAtATime == \A c, d \in Clients : Busy(c) /\ Busy(d) => c = d

\* How far the job of the schedule in hand is behind its row, stage by stage.
BeforeWrite(r) == r.stage \in {"find", "write"} => \A s \in Ids : Agrees(s)
InHand(r) ==
    /\ r.stage = "write" /\ r.op.kind = "update" => r.id \in Rows /\ r.seen \in RowType
    /\ r.stage \in {"write", "reread", "register"} => r.op.kind \in {"create", "update"}
    /\ r.stage = "remove" => r.op.kind \in {"delete", "disconnect"}
    /\ r.stage = "reread" => r.id \in Rows /\ \A s \in Ids \ {r.id} : Agrees(s)
Registering(r) ==
    r.stage \in {"unregister", "register"} /\ r.op.kind \in {"create", "update"} =>
        /\ r.id \in Rows /\ Alike(r.seen, rows[r.id]) /\ r.left \subseteq {r.id}
        /\ \A s \in Ids \ {r.id} : Agrees(s)
        /\ r.stage = "unregister" /\ r.left = {} => jobs[r.id] = "none"
        /\ r.stage = "register" => r.seen.enabled
Removing(r) ==
    r.stage \in {"unregister", "remove"} /\ r.op.kind \in {"delete", "disconnect"} =>
        /\ r.left \subseteq Doomed(r.op)
        /\ r.stage = "remove" => r.left = {}
        /\ \A s \in Ids \ r.left : IF s \in Doomed(r.op) THEN jobs[s] = "none" ELSE Agrees(s)
Settled(r) == BeforeWrite(r) /\ InHand(r) /\ Registering(r) /\ Removing(r)

SchedInv ==
    /\ Typed /\ OneAtATime
    /\ ~up => \A c \in Clients : ~Busy(c)
    /\ up /\ (\A c \in Clients : ~Busy(c)) => \A s \in Ids : Agrees(s)
    /\ \A c \in Clients : Busy(c) => Settled(request[c])

LEMMA GoneFacts ==
    /\ Gone \notin RowType /\ Gone.enabled = FALSE
    /\ \A row \in RowType : row # Gone /\ row.trigger \in Triggers
BY SchedulerAssumption DEF Gone, RowType

LEMMA RequestFacts ==
    ASSUME Typed, NEW c \in Clients, Busy(c)
    PROVE  /\ request[c].op \in Operations /\ request[c].id \in Nat
           /\ request[c].seen \in RowType \cup {Gone} /\ request[c].left \in SUBSET Ids
           /\ request[c].stage \in {"find", "write", "reread", "unregister", "register", "remove"}
BY DEF Typed, Requests, Busy

LEMMA OperationFacts ==
    ASSUME NEW op \in Operations
    PROVE  /\ op.kind \in {"create", "update", "delete", "disconnect"}
           /\ op.kind = "create" => /\ op.connection \in Connections /\ op.trigger \in Triggers
                                    /\ op.enabled \in BOOLEAN
           /\ op.kind = "update" => op.id \in Ids /\ op.to \in Changes
           /\ op.kind = "delete" => op.id \in Ids
           /\ op.kind = "disconnect" => op.connection \in Connections
BY DEF Operations

LEMMA IdFacts == \A n \in Ids : n \in Nat
BY SchedulerAssumption, FS_CardinalityType

\* Going on to a stage, and ending.
LEMMA GoFacts ==
    ASSUME Typed, NEW c \in Clients, Busy(c), NEW id \in Nat, NEW seen \in RowType \cup {Gone},
           NEW left \in SUBSET Ids,
           NEW stage \in {"find", "write", "reread", "unregister", "register", "remove"},
           Go(c, stage, id, seen, left)
    PROVE  /\ request' \in [Clients -> Requests]
           /\ request'[c].stage = stage /\ request'[c].op = request[c].op /\ request'[c].id = id
           /\ request'[c].seen = seen /\ request'[c].left = left /\ Busy(c)'
           /\ \A d \in Clients : d # c => request'[d] = request[d]
<1>1. request' = [request EXCEPT ![c] = At(stage, request[c].op, id, seen, left)]
  BY DEF Go
<1>2. At(stage, request[c].op, id, seen, left) \in Requests
  BY RequestFacts DEF At, Requests
<1> QED BY <1>1, <1>2 DEF Typed, At, Busy, Idle

LEMMA EndFacts ==
    ASSUME Typed, NEW c \in Clients, End(c)
    PROVE  /\ request' \in [Clients -> Requests] /\ ~Busy(c)'
           /\ \A d \in Clients : d # c => request'[d] = request[d]
BY DEF End, Typed, Requests, Busy

\* A step of the only request that is busy keeps the invariant if it leaves the
\* request settled, or ends it with all jobs in agreement.
LEMMA StepKeeps ==
    ASSUME SchedInv, NEW c \in Clients, Busy(c), Typed', UNCHANGED up,
           \A d \in Clients : d # c => request'[d] = request[d],
           Busy(c)' => Settled(request[c])',
           ~Busy(c)' => \A s \in Ids : Agrees(s)'
    PROVE  SchedInv'
<1>1. \A d \in Clients : d # c => ~Busy(d)'
  BY DEF SchedInv, OneAtATime, Busy
<1>2. OneAtATime'
  BY <1>1 DEF OneAtATime
<1>3. \A d \in Clients : Busy(d)' => Settled(request[d])'
  BY <1>1
<1>4. up
  BY DEF SchedInv
<1> QED BY <1>1, <1>2, <1>3, <1>4 DEF SchedInv

LEMMA AskKeeps == ASSUME SchedInv, ~Together, NEW c \in Clients, Ask(c) PROVE SchedInv'
<1>1. PICK op \in Operations : request' = [request EXCEPT ![c] = At("find", op, 0, Gone, {})]
  BY DEF Ask
<1>2. up /\ request[c] = Idle /\ UNCHANGED <<rows, jobs, connections, last, runs, up, half>>
  BY DEF Ask
<1>3. \A d \in Clients : ~Busy(d)
  BY DEF Ask, Busy
<1>4. At("find", op, 0, Gone, {}) \in Requests /\ At("find", op, 0, Gone, {}) # Idle
  BY DEF At, Requests, Idle
<1>5. request' \in [Clients -> Requests] /\ request'[c] = At("find", op, 0, Gone, {})
  BY <1>1, <1>4 DEF SchedInv, Typed
<1>6. \A d \in Clients : d # c => request'[d] = request[d]
  BY <1>1 DEF SchedInv, Typed
<1>7. Typed'
  BY <1>2, <1>5 DEF SchedInv, Typed
<1>8. \A s \in Ids : Agrees(s)'
  BY <1>2, <1>3 DEF SchedInv, Agrees
<1>9. Settled(request[c])'
  BY <1>5, <1>8 DEF Settled, BeforeWrite, InHand, Registering, Removing, At
<1>10. \A d \in Clients : Busy(d)' <=> d = c
  BY <1>3, <1>4, <1>5, <1>6 DEF Busy
<1> QED BY <1>2, <1>7, <1>9, <1>10 DEF SchedInv, OneAtATime

LEMMA FindKeeps == ASSUME SchedInv, NEW c \in Clients, Find(c) PROVE SchedInv'
<1> DEFINE r == request[c]  op == r.op
<1>1. Typed /\ Busy(c) /\ up /\ r.stage = "find" /\ UNCHANGED <<rows, jobs, connections, last, runs, asked, up, half>>
  BY DEF SchedInv, Find, In, Busy
<1>2. op \in Operations /\ r.id \in Nat
  BY <1>1, RequestFacts
<1>3. \A s \in Ids : Agrees(s) /\ Agrees(s)'
  <2>1. \A s \in Ids : Agrees(s)
    BY <1>1 DEF SchedInv, Settled, BeforeWrite
  <2> QED BY <1>1, <2>1 DEF Agrees
<1>4. Rows' = Rows /\ \A o : Doomed(o)' = Doomed(o)
  BY <1>1 DEF Rows, Doomed, ListFor
<1>5. ASSUME op.kind = "create", Go(c, "write", 0, Gone, {}) PROVE SchedInv'
  <2>1. Typed' /\ (\A d \in Clients : d # c => request'[d] = request[d])
        /\ request'[c].stage = "write" /\ request'[c].op = op
    BY <1>1, <1>5, GoFacts DEF Typed
  <2>2. Settled(request[c])'
    BY <2>1, <1>3, <1>5 DEF Settled, BeforeWrite, InHand, Registering, Removing
  <2> QED BY <2>1, <2>2, <1>1, <1>3, StepKeeps
<1>6. ASSUME op.kind = "update", op.id \in Rows, Go(c, "write", op.id, rows[op.id], {}) PROVE SchedInv'
  <2>1. rows[op.id] \in RowType /\ op.id \in Ids /\ op.id \in Nat
    BY <1>1, <1>6, IdFacts DEF Typed, Rows
  <2>2. Typed' /\ (\A d \in Clients : d # c => request'[d] = request[d])
        /\ request'[c].stage = "write" /\ request'[c].op = op /\ request'[c].id = op.id
        /\ request'[c].seen = rows[op.id]
    BY <1>1, <1>6, <2>1, GoFacts DEF Typed
  <2>3. Settled(request[c])'
    BY <2>1, <2>2, <1>3, <1>4, <1>6 DEF Settled, BeforeWrite, InHand, Registering, Removing
  <2> QED BY <2>2, <2>3, <1>1, <1>3, StepKeeps
<1>7. ASSUME op.kind = "delete", op.id \in Rows, Go(c, "unregister", op.id, Gone, {op.id}) PROVE SchedInv'
  <2>1. op.id \in Ids /\ op.id \in Nat /\ {op.id} \in SUBSET Ids
    BY <1>7, IdFacts DEF Rows
  <2> DEFINE id == op.id  left == {op.id}
  <2> HIDE DEF id, left
  <2>a. Go(c, "unregister", id, Gone, left) /\ id \in Nat /\ left \in SUBSET Ids
    BY <1>7, <2>1 DEF id, left
  <2>b. /\ request' \in [Clients -> Requests] /\ (\A d \in Clients : d # c => request'[d] = request[d])
        /\ request'[c].stage = "unregister" /\ request'[c].op = op /\ request'[c].left = left
    BY <1>1, <2>a, GoFacts
  <2>2. Typed' /\ (\A d \in Clients : d # c => request'[d] = request[d])
        /\ request'[c].stage = "unregister" /\ request'[c].op = op /\ request'[c].left = {op.id}
    BY <1>1, <2>b DEF Typed, left
  <2>3. Settled(request[c])'
    BY <2>2, <1>3, <1>7 DEF Settled, BeforeWrite, InHand, Registering, Removing, Doomed
  <2> QED BY <2>2, <2>3, <1>1, <1>3, StepKeeps
<1>8. ASSUME op.kind = "disconnect", Go(c, "unregister", 0, Gone, ListFor(op.connection)) PROVE SchedInv'
  <2>1. ListFor(op.connection) \in SUBSET Ids
    BY DEF ListFor, Rows
  <2>2. Typed' /\ (\A d \in Clients : d # c => request'[d] = request[d])
        /\ request'[c].stage = "unregister" /\ request'[c].op = op /\ request'[c].left = ListFor(op.connection)
    <3> DEFINE left == ListFor(op.connection)
    <3>1. Go(c, "unregister", 0, Gone, left) /\ left \in SUBSET Ids
      BY <1>8, <2>1
    <3> HIDE DEF left
    <3>2. /\ request' \in [Clients -> Requests] /\ (\A d \in Clients : d # c => request'[d] = request[d])
          /\ request'[c].stage = "unregister" /\ request'[c].op = op /\ request'[c].left = left
      BY <1>1, <3>1, GoFacts
    <3> QED BY <1>1, <3>2 DEF Typed, left
  <2>3. Doomed(request[c].op)' = ListFor(op.connection)
    BY <1>1, <1>4, <1>8, <2>2 DEF Doomed, ListFor
  <2>4. Settled(request[c])'
    BY <2>2, <2>3, <1>3, <1>8 DEF Settled, BeforeWrite, InHand, Registering, Removing
  <2> QED BY <2>2, <2>4, <1>1, <1>3, StepKeeps
<1>9. ASSUME End(c) PROVE SchedInv'
  <2>1. Typed' /\ (\A d \in Clients : d # c => request'[d] = request[d]) /\ ~Busy(c)'
    BY <1>1, <1>9, EndFacts DEF Typed
  <2> QED BY <2>1, <1>1, <1>3, StepKeeps
<1> QED BY <1>5, <1>6, <1>7, <1>8, <1>9 DEF Find

LEMMA WriteKeeps == ASSUME SchedInv, NEW c \in Clients, Write(c) PROVE SchedInv'
<1> DEFINE r == request[c]  op == r.op  data == Merged(r.seen, op.to)
<1>1. Typed /\ Busy(c) /\ up /\ r.stage = "write" /\ UNCHANGED <<jobs, connections, runs, asked, up, half>>
  BY DEF SchedInv, Write, In, Busy
<1>2. op \in Operations /\ r.id \in Nat
  BY <1>1, RequestFacts
<1>3. \A s \in Ids : Agrees(s)
  BY <1>1 DEF SchedInv, Settled, BeforeWrite
<1>4. r.op.kind = "update" => r.id \in Rows /\ r.seen \in RowType
  BY <1>1 DEF SchedInv, Settled, InHand
<1>5. ASSUME NEW id \in Ids, NEW row \in RowType, rows' = [rows EXCEPT ![id] = row], last' \in Nat,
             op.kind \in {"create", "update"}, Go(c, "reread", id, Gone, {})
      PROVE  SchedInv'
  <2>1. rows' \in [Ids -> RowType \cup {Gone}] /\ rows'[id] = row /\ id \in Rows'
        /\ \A s \in Ids \ {id} : rows'[s] = rows[s]
    BY <1>1, <1>5, GoneFacts DEF Typed, Rows
  <2>2. \A s \in Ids \ {id} : Agrees(s)'
    BY <1>1, <1>3, <2>1 DEF Agrees
  <2>3. Typed' /\ (\A d \in Clients : d # c => request'[d] = request[d])
        /\ request'[c].stage = "reread" /\ request'[c].op = op /\ request'[c].id = id /\ Busy(c)'
    BY <1>1, <1>5, <2>1, IdFacts, GoFacts DEF Typed
  <2>4. Settled(request[c])'
    BY <2>1, <2>2, <2>3, <1>5 DEF Settled, BeforeWrite, InHand, Registering, Removing
  <2> QED BY <2>3, <2>4, <1>1, StepKeeps
<1>6. ASSUME op.kind = "create", op.connection \in connections, last + 1 \in Ids,
             rows' = [rows EXCEPT ![last + 1] = [connection |-> op.connection,
                           trigger |-> op.trigger, enabled |-> op.enabled, status |-> "none"]],
             last' = last + 1, Go(c, "reread", last + 1, Gone, {})
      PROVE  SchedInv'
  <2>1. [connection |-> op.connection, trigger |-> op.trigger, enabled |-> op.enabled, status |-> "none"] \in RowType
    BY <1>2, <1>6, OperationFacts DEF RowType, Statuses
  <2>2. last' \in Nat
    BY <1>1, <1>6 DEF Typed
  <2> QED BY <2>1, <2>2, <1>5, <1>6
<1>7. ASSUME op.kind = "update", rows' = IF r.id \in Rows THEN [rows EXCEPT ![r.id] = Columns(@, data)] ELSE rows,
             Go(c, "reread", r.id, Gone, {}), UNCHANGED last
      PROVE  SchedInv'
  <2>1. r.id \in Rows /\ r.id \in Ids /\ rows[r.id] \in RowType
    BY <1>1, <1>4, <1>7 DEF Rows, Typed
  <2>2. data \in RowType
    BY <1>2, <1>4, <1>7, OperationFacts, MergedType
  <2>3. Columns(rows[r.id], data) \in RowType
    BY <2>1, <2>2 DEF Columns, RowType
  <2>4. rows' = [rows EXCEPT ![r.id] = Columns(rows[r.id], data)] /\ last' \in Nat
    BY <1>1, <1>7, <2>1 DEF Typed
  <2> QED BY <2>1, <2>3, <2>4, <1>5, <1>7
<1>8. ASSUME End(c), UNCHANGED <<rows, last>> PROVE SchedInv'
  <2>1. Typed' /\ (\A d \in Clients : d # c => request'[d] = request[d]) /\ ~Busy(c)'
    BY <1>1, <1>8, EndFacts DEF Typed
  <2>2. \A s \in Ids : Agrees(s)'
    BY <1>1, <1>3, <1>8 DEF Agrees
  <2> QED BY <2>1, <2>2, <1>1, StepKeeps
<1> QED BY <1>6, <1>7, <1>8 DEF Write

LEMMA RereadKeeps == ASSUME SchedInv, NEW c \in Clients, Reread(c) PROVE SchedInv'
<1> DEFINE r == request[c]  id == r.id
<1>1. Typed /\ Busy(c) /\ up /\ r.stage = "reread" /\ UNCHANGED <<rows, jobs, connections, last, runs, asked, up, half>>
  BY DEF SchedInv, Reread, In, Busy
<1>2. id \in Rows /\ (\A s \in Ids \ {id} : Agrees(s)) /\ r.op.kind \in {"create", "update"}
  BY <1>1 DEF SchedInv, Settled, InHand
<1>3. id \in Ids /\ rows[id] \in RowType /\ {id} \in SUBSET Ids /\ id \in Nat
  BY <1>1, <1>2, IdFacts DEF Rows, Typed
<1>4. Go(c, "unregister", id, rows[id], {id})
  BY <1>2 DEF Reread
<1>5. /\ request' \in [Clients -> Requests] /\ (\A d \in Clients : d # c => request'[d] = request[d])
      /\ request'[c].stage = "unregister" /\ request'[c].op = r.op /\ request'[c].left = {id}
      /\ request'[c].id = id /\ request'[c].seen = rows[id] /\ Busy(c)'
  BY <1>1, <1>3, <1>4, GoFacts
<1>6. Typed'
  BY <1>1, <1>5 DEF Typed
<1>7. Rows' = Rows /\ \A s \in Ids \ {id} : Agrees(s)'
  BY <1>1, <1>2 DEF Rows, Agrees
<1>8. Settled(request[c])'
  BY <1>1, <1>2, <1>5, <1>7 DEF Settled, BeforeWrite, InHand, Registering, Removing, Alike
<1> QED BY <1>1, <1>5, <1>6, <1>8, StepKeeps

LEMMA UnregisterKeeps == ASSUME SchedInv, NEW c \in Clients, Unregister(c) PROVE SchedInv'
<1> DEFINE r == request[c]
<1>1. Typed /\ Busy(c) /\ up /\ r.stage = "unregister" /\ UNCHANGED <<rows, connections, last, runs, asked, up>>
  BY DEF SchedInv, Unregister, In, Busy
<1>2. r.op \in Operations /\ r.id \in Nat /\ r.seen \in RowType \cup {Gone} /\ r.left \in SUBSET Ids
  BY <1>1, RequestFacts
<1>3. Registering(r) /\ Removing(r)
  BY <1>1 DEF SchedInv, Settled
<1>4. Rows' = Rows /\ \A o : Doomed(o)' = Doomed(o)
  BY <1>1 DEF Rows, Doomed, ListFor
<1>5. ASSUME NEW s \in r.left, jobs' = [jobs EXCEPT ![s] = "none"], Go(c, "unregister", r.id, r.seen, r.left \ {s}),
             UNCHANGED half
      PROVE  SchedInv'
  <2>1. /\ request' \in [Clients -> Requests] /\ (\A d \in Clients : d # c => request'[d] = request[d])
        /\ request'[c].stage = "unregister" /\ request'[c].op = r.op /\ request'[c].left = r.left \ {s}
        /\ request'[c].id = r.id /\ request'[c].seen = r.seen /\ Busy(c)'
    BY <1>1, <1>2, <1>5, GoFacts
  <2>2. Typed' /\ jobs'[s] = "none" /\ (\A i \in Ids \ {s} : jobs'[i] = jobs[i]) /\ s \in Ids
    BY <1>1, <1>2, <1>5, <2>1 DEF Typed
  <2>3. \A i \in Ids \ {s} : Agrees(i)' <=> Agrees(i)
    BY <1>1, <1>5, <2>2 DEF Agrees
  <2>4. Registering(request[c])'
    <3> SUFFICES ASSUME r.op.kind \in {"create", "update"}
                 PROVE  /\ r.id \in Rows /\ Alike(r.seen, rows[r.id]) /\ r.left \ {s} \subseteq {r.id}
                        /\ (\A i \in Ids \ {r.id} : Agrees(i)')
                        /\ r.left \ {s} = {} => jobs'[r.id] = "none"
      BY <1>1, <1>4, <2>1 DEF Registering, Alike
    <3>1. r.id \in Rows /\ Alike(r.seen, rows[r.id]) /\ r.left \subseteq {r.id} /\ \A i \in Ids \ {r.id} : Agrees(i)
      BY <1>1, <1>3 DEF Registering
    <3>2. s = r.id
      BY <3>1
    <3> QED BY <3>1, <3>2, <2>2, <2>3
  <2>5. Removing(request[c])'
    <3> SUFFICES ASSUME r.op.kind \in {"delete", "disconnect"}
                 PROVE  /\ r.left \ {s} \subseteq Doomed(r.op)
                        /\ \A i \in Ids \ (r.left \ {s}) : IF i \in Doomed(r.op) THEN jobs'[i] = "none" ELSE Agrees(i)'
      <4>1. Doomed(request[c].op)' = Doomed(r.op)
        BY <1>1, <2>1 DEF Doomed, ListFor, Rows
      <4> QED BY <4>1, <2>1 DEF Removing
    <3>1. r.left \subseteq Doomed(r.op)
          /\ \A i \in Ids \ r.left : IF i \in Doomed(r.op) THEN jobs[i] = "none" ELSE Agrees(i)
      BY <1>1, <1>3 DEF Removing
    <3> QED BY <3>1, <2>2, <2>3
  <2>6. Settled(request[c])'
    BY <2>1, <2>4, <2>5 DEF Settled, BeforeWrite, InHand
  <2> QED BY <1>1, <2>1, <2>2, <2>6, StepKeeps
<1>6. ASSUME r.left = {}, UNCHANGED jobs, r.op.kind \in {"delete", "disconnect"}, Go(c, "remove", r.id, Gone, {}),
             UNCHANGED half
      PROVE  SchedInv'
  <2>1. /\ request' \in [Clients -> Requests] /\ (\A d \in Clients : d # c => request'[d] = request[d])
        /\ request'[c].stage = "remove" /\ request'[c].op = r.op /\ request'[c].left = {} /\ Busy(c)'
    BY <1>1, <1>2, <1>6, GoFacts
  <2>2. Typed'
    BY <1>1, <1>6, <2>1 DEF Typed
  <2>3. Removing(request[c])'
    <3>1. Doomed(request[c].op)' = Doomed(r.op)
      BY <1>1, <2>1 DEF Doomed, ListFor, Rows
    <3>2. \A i \in Ids : IF i \in Doomed(r.op) THEN jobs[i] = "none" ELSE Agrees(i)
      BY <1>1, <1>3, <1>6 DEF Removing
    <3>3. \A i \in Ids : Agrees(i)' <=> Agrees(i)
      BY <1>1, <1>6 DEF Agrees
    <3> QED BY <2>1, <3>1, <3>2, <3>3, <1>6 DEF Removing
  <2>4. Settled(request[c])'
    BY <1>6, <2>1, <2>3 DEF Settled, BeforeWrite, InHand, Registering
  <2> QED BY <1>1, <2>1, <2>2, <2>4, StepKeeps
<1>7. ASSUME r.left = {}, UNCHANGED jobs, r.op.kind \in {"create", "update"}, r.seen.enabled, Go(c, "register", r.id, r.seen, {}),
             UNCHANGED half
      PROVE  SchedInv'
  <2>1. /\ request' \in [Clients -> Requests] /\ (\A d \in Clients : d # c => request'[d] = request[d])
        /\ request'[c].stage = "register" /\ request'[c].op = r.op /\ request'[c].left = {} /\ Busy(c)'
        /\ request'[c].id = r.id /\ request'[c].seen = r.seen
    <3>1. Go(c, "register", r.id, r.seen, {}) /\ {} \in SUBSET Ids /\ Typed /\ Busy(c)
          /\ r.id \in Nat /\ r.seen \in RowType \cup {Gone}
      BY <1>1, <1>2, <1>7
    <3> QED BY ONLY <3>1, GoFacts
  <2>2. Typed' /\ \A i \in Ids : Agrees(i)' <=> Agrees(i)
    BY <1>1, <1>7, <2>1 DEF Typed, Agrees
  <2>3. Settled(request[c])'
    BY <1>1, <1>3, <1>4, <1>7, <2>1, <2>2 DEF Settled, BeforeWrite, InHand, Registering, Removing, Alike
  <2> QED BY <1>1, <2>1, <2>2, <2>3, StepKeeps
<1>8. ASSUME r.left = {}, UNCHANGED jobs, r.op.kind \in {"create", "update"}, ~r.seen.enabled, End(c),
             half' = half \ {r.id}
      PROVE  SchedInv'
  <2>1. Typed' /\ (\A d \in Clients : d # c => request'[d] = request[d]) /\ ~Busy(c)'
    BY <1>1, <1>8, EndFacts DEF Typed
  <2>2. jobs[r.id] = "none" /\ ~rows[r.id].enabled /\ \A s \in Ids \ {r.id} : Agrees(s)
    BY <1>1, <1>3, <1>8 DEF Registering, Alike
  <2>3. \A s \in Ids : Agrees(s)'
    BY <1>1, <1>8, <2>2 DEF Agrees
  <2> QED BY <2>1, <2>3, <1>1, StepKeeps
<1> QED BY <1>5, <1>6, <1>7, <1>8 DEF Unregister

LEMMA RegisterKeeps == ASSUME SchedInv, NEW c \in Clients, Register(c) PROVE SchedInv'
<1> DEFINE r == request[c]
<1>1. Typed /\ Busy(c) /\ up /\ r.stage = "register" /\ UNCHANGED <<rows, connections, last, runs, asked, up>>
  BY DEF SchedInv, Register, In, Busy
<1>2. r.op.kind \in {"create", "update"} /\ r.id \in Rows /\ Alike(r.seen, rows[r.id]) /\ r.seen.enabled
      /\ \A s \in Ids \ {r.id} : Agrees(s)
  BY <1>1 DEF SchedInv, Settled, InHand, Registering
<1>3. jobs' = [jobs EXCEPT ![r.id] = r.seen.trigger] /\ End(c) /\ half' = half \ {r.id}
  BY DEF Register
<1>4. r.id \in Ids /\ rows[r.id] \in RowType /\ r.seen.trigger = rows[r.id].trigger /\ rows[r.id].enabled
  BY <1>1, <1>2 DEF Rows, Typed, Alike
<1>5. Typed' /\ (\A d \in Clients : d # c => request'[d] = request[d]) /\ ~Busy(c)'
  BY <1>1, <1>3, <1>4, EndFacts, GoneFacts DEF Typed
<1>6. \A s \in Ids : Agrees(s)'
  BY <1>1, <1>2, <1>3, <1>4 DEF Agrees, Typed
<1> QED BY <1>1, <1>5, <1>6, StepKeeps

LEMMA RemoveKeeps == ASSUME SchedInv, NEW c \in Clients, RemoveRows(c) PROVE SchedInv'
<1> DEFINE r == request[c]
<1>1. Typed /\ Busy(c) /\ up /\ r.stage = "remove" /\ UNCHANGED <<jobs, last, runs, asked, up>>
  BY DEF SchedInv, RemoveRows, In, Busy
<1>2. r.op \in Operations /\ r.op.kind \in {"create", "update", "delete", "disconnect"}
  BY <1>1, RequestFacts, OperationFacts
<1>3. r.op.kind \in {"delete", "disconnect"}
  BY <1>1, <1>2 DEF SchedInv, Settled, InHand, Registering
<1>4. \A s \in Ids : IF s \in Doomed(r.op) THEN jobs[s] = "none" ELSE Agrees(s)
  BY <1>1, <1>3 DEF SchedInv, Settled, Removing
<1>5. rows' = [s \in Ids |-> IF s \in Doomed(r.op) THEN Gone ELSE rows[s]] /\ End(c)
      /\ half' = half \ Doomed(r.op)
  BY DEF RemoveRows
<1>6. Typed' /\ (\A d \in Clients : d # c => request'[d] = request[d]) /\ ~Busy(c)'
  BY <1>1, <1>5, EndFacts DEF Typed
<1>7. \A s \in Ids : Agrees(s)'
  BY <1>1, <1>4, <1>5, GoneFacts DEF Agrees
<1> QED BY <1>1, <1>6, <1>7, StepKeeps

LEMMA RaisingKeeps == ASSUME SchedInv, NEW c \in Clients, StoreRaises(c) PROVE SchedInv'
<1> DEFINE r == request[c]
<1>1. Typed /\ Busy(c) /\ up /\ r.stage \in {"find", "write", "reread", "remove"} /\ End(c)
      /\ UNCHANGED <<rows, jobs, connections, last, runs, asked, up>>
  BY DEF SchedInv, StoreRaises, Busy
<1>2. r.op \in Operations /\ r.op.kind \in {"create", "update", "delete", "disconnect"}
  BY <1>1, RequestFacts, OperationFacts
<1>3. Settled(r)
  BY <1>1 DEF SchedInv
<1>4. Typed' /\ (\A d \in Clients : d # c => request'[d] = request[d]) /\ ~Busy(c)'
  BY <1>1, EndFacts DEF Typed
<1>5. \A s \in Ids : Agrees(s)'
  <2>1. half \subseteq half' /\ \A s \in Ids : Agrees(s) => Agrees(s)'
    BY <1>1 DEF StoreRaises, Agrees
  <2>2. CASE r.stage \in {"find", "write"}
    BY <1>3, <2>1, <2>2 DEF Settled, BeforeWrite
  <2>3. CASE r.stage = "reread"
    <3>1. r.id \in half' /\ \A s \in Ids \ {r.id} : Agrees(s)
      BY <1>3, <2>3 DEF Settled, InHand, StoreRaises
    <3> QED BY <2>1, <3>1 DEF Agrees
  <2>4. CASE r.stage = "remove"
    <3>1. Doomed(r.op) \subseteq half'
      BY <2>4 DEF StoreRaises
    <3>2. \A s \in Ids : IF s \in Doomed(r.op) THEN jobs[s] = "none" ELSE Agrees(s)
      BY <1>2, <1>3, <2>4 DEF Settled, InHand, Removing
    <3> QED BY <2>1, <3>1, <3>2 DEF Agrees
  <2> QED BY <1>1, <2>2, <2>3, <2>4
<1> QED BY <1>1, <1>4, <1>5, StepKeeps

\* Executions leave requests and jobs alone; an outcome is no part of a job.
LEMMA RunKeeps ==
    ASSUME SchedInv, UNCHANGED <<jobs, connections, last, request, up, half>>,
           runs' \in [Workers -> Executions], rows' \in [Ids -> RowType \cup {Gone}],
           \A s \in Ids : Alike(rows'[s], rows[s]) /\ (rows[s] = Gone <=> rows'[s] = Gone)
    PROVE  SchedInv'
<1>1. Typed' /\ Rows' = Rows
  BY DEF SchedInv, Typed, Rows
<1>2. \A s \in Ids : Agrees(s)' <=> Agrees(s)
  BY DEF SchedInv, Agrees, Alike
<1>3. \A c \in Clients : request'[c] = request[c] /\ (Busy(c)' <=> Busy(c))
  BY DEF Busy
<1>4. ASSUME NEW c \in Clients, Busy(c) PROVE Settled(request[c])'
  <2> DEFINE r == request[c]
  <2>1. Settled(r) /\ r' = r
    BY <1>4 DEF SchedInv
  <2>2. BeforeWrite(r)' /\ InHand(r)'
    BY <1>1, <1>2, <2>1 DEF Settled, BeforeWrite, InHand
  <2>3. Registering(r)'
    <3> SUFFICES ASSUME r.stage \in {"unregister", "register"}, r.op.kind \in {"create", "update"}
                 PROVE  /\ r.id \in Rows' /\ Alike(r.seen, rows'[r.id]) /\ r.left \subseteq {r.id}
                        /\ \A s \in Ids \ {r.id} : Agrees(s)'
                        /\ r.stage = "unregister" /\ r.left = {} => jobs[r.id] = "none"
                        /\ r.stage = "register" => r.seen.enabled
      BY <2>1 DEF Registering, Alike
    <3>1. /\ r.id \in Rows /\ Alike(r.seen, rows[r.id]) /\ r.left \subseteq {r.id}
          /\ \A s \in Ids \ {r.id} : Agrees(s)
          /\ r.stage = "unregister" /\ r.left = {} => jobs[r.id] = "none"
          /\ r.stage = "register" => r.seen.enabled
      BY <2>1 DEF Settled, Registering
    <3>2. r.id \in Ids
      BY <3>1 DEF Rows
    <3> QED BY <1>1, <1>2, <3>1, <3>2 DEF Alike
  <2>4. Removing(r)'
    <3>1. Doomed(r.op)' = Doomed(r.op)
      BY <1>1, <2>1 DEF Doomed, ListFor, Alike, Rows
    <3> QED BY <1>2, <2>1, <3>1 DEF Settled, Removing
  <2> QED BY <2>2, <2>3, <2>4 DEF Settled
<1> QED BY <1>1, <1>2, <1>3, <1>4 DEF SchedInv, OneAtATime

\* An execution edits the outcome in one row, when it ends.
LEMMA RunFacts ==
    ASSUME Typed, NEW w \in Workers, Execute(w) \/ \E s \in Ids : Fire(s, w) \/ RunNow(s, w)
    PROVE  /\ UNCHANGED <<jobs, connections, last, request, up, half>>
           /\ runs' \in [Workers -> Executions] /\ rows' \in [Ids -> RowType \cup {Gone}]
           /\ \A s \in Ids : /\ Alike(rows'[s], rows[s]) /\ (rows[s] = Gone <=> rows'[s] = Gone)
                             /\ rows'[s].status # rows[s].status =>
                                    /\ runs[w] # Idle /\ runs'[w] = Idle
                                    /\ runs[w].schedule = s /\ runs[w].status = rows'[s].status
<1> DEFINE Goal == /\ UNCHANGED <<jobs, connections, last, request, up, half>>
                   /\ runs' \in [Workers -> Executions] /\ rows' \in [Ids -> RowType \cup {Gone}]
                   /\ \A s \in Ids : /\ Alike(rows'[s], rows[s]) /\ (rows[s] = Gone <=> rows'[s] = Gone)
                                     /\ rows'[s].status # rows[s].status =>
                                            /\ runs[w] # Idle /\ runs'[w] = Idle
                                            /\ runs[w].schedule = s /\ runs[w].status = rows'[s].status
<1>2. ASSUME UNCHANGED edits, UNCHANGED up, runs' \in [Workers -> Executions] PROVE Goal
  BY <1>2 DEF edits, Typed, Alike
<1>3. ASSUME NEW s \in Ids, Fire(s, w) \/ RunNow(s, w) PROVE Goal
  <2>1. Execution(s, TRUE) \in Executions /\ Execution(s, FALSE) \in Executions
    BY DEF Execution, Executions, Statuses
  <2>2. UNCHANGED edits /\ UNCHANGED up /\ runs' \in [Workers -> Executions]
    BY <1>3, <2>1 DEF Fire, RunNow, Typed
  <2> QED BY <1>2, <2>2
<1>4. ASSUME runs[w] # Idle PROVE runs[w] \in Executions \ {Idle} /\ runs[w].schedule \in Ids /\ runs[w].status \in Statuses
  BY <1>4 DEF Typed, Executions
<1>5. CASE ReadSchedule(w)
  <2>1. [runs[w] EXCEPT !.stage = "backup"] \in Executions
    BY <1>4, <1>5 DEF ReadSchedule, Executions
  <2>2. Idle \in Executions
    BY DEF Executions
  <2>3. UNCHANGED edits /\ UNCHANGED up /\ runs' \in [Workers -> Executions]
    BY <1>5, <2>1, <2>2 DEF ReadSchedule, Typed
  <2> QED BY <1>2, <2>3
<1>6. CASE Backup(w)
  <2>1. PICK status \in {"success", "failed"} :
          runs' = [runs EXCEPT ![w] = [@ EXCEPT !.stage = "record", !.status = status]]
    BY <1>6 DEF Backup
  <2>2. [runs[w] EXCEPT !.stage = "record", !.status = status] \in Executions
    BY <1>4, <1>6 DEF Backup, Executions, Statuses
  <2>3. UNCHANGED edits /\ UNCHANGED up /\ runs' \in [Workers -> Executions]
    BY <1>6, <2>1, <2>2 DEF Backup, Typed
  <2> QED BY <1>2, <2>3
<1>7. CASE Record(w)
  <2> DEFINE s == runs[w].schedule
  <2>1. s \in Ids /\ runs[w].status \in Statuses /\ runs[w] # Idle
    BY <1>4, <1>7 DEF Record
  <2>2. runs' \in [Workers -> Executions] /\ UNCHANGED <<jobs, connections, last, request, up, half>>
        /\ runs'[w] = Idle
    BY <1>7 DEF Record, Typed, Executions
  <2>3. CASE s \in Rows
    <3>1. rows[s] \in RowType
      BY <2>3 DEF Rows, Typed
    <3> DEFINE row == [rows[s] EXCEPT !.status = runs[w].status]
    <3>2. row \in RowType /\ Alike(row, rows[s]) /\ row # Gone /\ row.status = runs[w].status
      BY <2>1, <3>1, GoneFacts DEF RowType, Alike
    <3>3. rows' = [rows EXCEPT ![s] = row]
      BY <1>7, <2>3 DEF Record
    <3> HIDE DEF row
    <3>4. rows' \in [Ids -> RowType \cup {Gone}] /\ rows'[s] = row /\ \A i \in Ids \ {s} : rows'[i] = rows[i]
      BY <2>1, <3>2, <3>3 DEF Typed
    <3>5. rows[s] # Gone
      BY <2>3 DEF Rows
    <3> QED BY <2>1, <2>2, <3>2, <3>4, <3>5 DEF Alike
  <2>4. CASE s \notin Rows
    BY <1>7, <2>2, <2>4 DEF Record, Typed, Alike
  <2> QED BY <2>3, <2>4
<1> QED BY <1>3, <1>5, <1>6, <1>7 DEF Execute

LEMMA ExecutionKeeps ==
    ASSUME SchedInv, NEW w \in Workers, Execute(w) \/ \E s \in Ids : Fire(s, w) \/ RunNow(s, w)
    PROVE  SchedInv'
<1>1. Typed
  BY DEF SchedInv
<1> QED BY <1>1, RunFacts, RunKeeps

LEMMA ServerKeeps == ASSUME SchedInv, Crash \/ Start PROVE SchedInv'
<1>1. CASE Crash
  <2>1. Typed'
    BY <1>1 DEF Crash, SchedInv, Typed, NoJobs, Requests, Executions
  <2> QED BY <1>1, <2>1 DEF Crash, SchedInv, OneAtATime, Busy
<1>2. CASE Start
  <2>1. \A s \in Ids : rows[s].enabled => rows[s].trigger \in Triggers
    BY GoneFacts DEF SchedInv, Typed
  <2>2. Typed'
    BY <1>2, <2>1 DEF Start, Loaded, SchedInv, Typed
  <2>3. \A s \in Ids : Agrees(s)'
    BY <1>2 DEF Start, Loaded, Agrees
  <2> QED BY <1>2, <2>2, <2>3 DEF Start, SchedInv, OneAtATime, Busy
<1> QED BY <1>1, <1>2

LEMMA Stutters == ASSUME SchedInv, UNCHANGED vars PROVE SchedInv'
<1>1. UNCHANGED <<jobs, connections, last, request, up, half>> /\ UNCHANGED <<rows, runs>>
  BY DEF vars
<1> QED BY <1>1, RunKeeps DEF SchedInv, Typed, Alike

\* Under one request at a time, the jobs of the scheduler are those of the
\* enabled rows whenever no request is under way: after any number of edits,
\* deletions, cascades, executions, failing requests, crashes and restarts
\* (register_schedule, unregister_schedule and init_scheduler of
\* scheduler_service.py).  The exceptions are the schedules of a request whose
\* store access raised between row and job, until a later one or a start.
THEOREM JobsAlwaysAgree == ~Together => (Spec => []JobsAgree)
<1> SUFFICES ASSUME ~Together PROVE Spec => []JobsAgree
  OBVIOUS
<1>1. Init => SchedInv
  <2> SUFFICES ASSUME Init PROVE SchedInv
    OBVIOUS
  <2>1. Typed
    BY DEF Init, Typed, NoJobs, Requests, Executions
  <2> QED BY <2>1 DEF Init, SchedInv, OneAtATime, Busy
<1>2. SchedInv /\ [Next]_vars => SchedInv'
  <2> SUFFICES ASSUME SchedInv, [Next]_vars PROVE SchedInv'
    OBVIOUS
  <2>1. CASE \E c \in Clients : Ask(c) \/ Step(c)
    BY <2>1, AskKeeps, FindKeeps, WriteKeeps, RereadKeeps, UnregisterKeeps, RegisterKeeps, RemoveKeeps, RaisingKeeps DEF Step
  <2>2. CASE \E w \in Workers : Execute(w) \/ \E s \in Ids : Fire(s, w) \/ RunNow(s, w)
    BY <2>2, ExecutionKeeps
  <2>3. CASE Crash \/ Start
    BY <2>3, ServerKeeps
  <2>4. CASE UNCHANGED vars
    BY <2>4, Stutters
  <2> QED BY <2>1, <2>2, <2>3, <2>4 DEF Next
<1>3. SchedInv => JobsAgree
  <2> SUFFICES ASSUME SchedInv, AtRest PROVE \A s \in Ids \ half : jobs[s] = Loaded[s]
    BY DEF JobsAgree
  <2>1. \A s \in Ids : Agrees(s)
    BY DEF SchedInv, AtRest, Busy
  <2> QED BY <2>1 DEF Loaded, Agrees
<1> QED BY <1>1, <1>2, <1>3, PTL DEF Spec

----------------------------------------------------------------------------
(* Outcomes, however requests overlap *)

\* Ids are handed out in order, and a PUT merges into a row that it has read.
Fresh == \A s \in Ids : s > last => rows[s] = Gone
Merging == \A c \in Clients : Busy(c) /\ request[c].stage = "write" /\ request[c].op.kind = "update" =>
               request[c].seen \in RowType
Loose == Typed /\ Fresh /\ Merging

LEMMA LooseGo ==
    ASSUME Loose, NEW c \in Clients, Busy(c), NEW id \in Nat, NEW seen \in RowType \cup {Gone},
           NEW left \in SUBSET Ids,
           NEW stage \in {"find", "write", "reread", "unregister", "register", "remove"},
           stage = "write" /\ request[c].op.kind = "update" => seen \in RowType,
           Go(c, stage, id, seen, left)
    PROVE  request' \in [Clients -> Requests] /\ Merging'
<1>1. /\ request' \in [Clients -> Requests]
      /\ request'[c].stage = stage /\ request'[c].op = request[c].op /\ request'[c].seen = seen
      /\ \A d \in Clients : d # c => request'[d] = request[d]
  BY GoFacts DEF Loose
<1> QED BY <1>1 DEF Loose, Merging, Busy

LEMMA LooseEnd ==
    ASSUME Loose, NEW c \in Clients, End(c)
    PROVE  request' \in [Clients -> Requests] /\ Merging'
<1>1. /\ request' \in [Clients -> Requests] /\ ~Busy(c)'
      /\ \A d \in Clients : d # c => request'[d] = request[d]
  BY EndFacts DEF Loose
<1> QED BY <1>1 DEF Loose, Merging, Busy

\* What a step of a request does to the rows: it hands out the next id, merges,
\* or takes rows away; no outcome changes.
LEMMA RowsOfRequest ==
    ASSUME Loose, NEW c \in Clients, Ask(c) \/ Step(c)
    PROVE  /\ rows' \in [Ids -> RowType \cup {Gone}] /\ last' \in Nat /\ Fresh'
           /\ \A s \in Ids : rows'[s].status = rows[s].status \/ rows'[s] = Gone
<1>1. Typed /\ Fresh /\ Merging
  BY DEF Loose
<1>2. CASE UNCHANGED <<rows, last>>
  BY <1>1, <1>2 DEF Typed, Fresh
<1>3. CASE Write(c)
  <2> DEFINE r == request[c]  op == r.op  data == Merged(r.seen, op.to)
  <2>1. Busy(c) /\ r.stage = "write"
    BY <1>3 DEF Write, In, Busy
  <2>2. op \in Operations
    BY <1>1, <2>1, RequestFacts
  <2>3. CASE /\ op.kind = "create" /\ last + 1 \in Ids /\ last' = last + 1
             /\ rows' = [rows EXCEPT ![last + 1] = [connection |-> op.connection,
                           trigger |-> op.trigger, enabled |-> op.enabled, status |-> "none"]]
    <3> DEFINE row == [connection |-> op.connection, trigger |-> op.trigger, enabled |-> op.enabled,
                       status |-> "none"]
    <3>1. row \in RowType /\ row.status = Gone.status
      BY <2>2, <2>3, OperationFacts DEF RowType, Statuses, Gone
    <3>2. rows[last + 1] = Gone /\ last \in Nat
      BY <1>1, <2>3, IdFacts DEF Fresh, Typed
    <3> HIDE DEF row
    <3>3. rows' \in [Ids -> RowType \cup {Gone}] /\ rows'[last + 1] = row
          /\ \A s \in Ids \ {last + 1} : rows'[s] = rows[s]
      BY <1>1, <2>3, <3>1 DEF Typed, row
    <3>4. Fresh'
      BY <1>1, <2>3, <3>2, <3>3, IdFacts DEF Fresh
    <3> QED BY <2>3, <3>1, <3>2, <3>3, <3>4
  <2>4. CASE /\ op.kind = "update" /\ UNCHANGED last
             /\ rows' = IF r.id \in Rows THEN [rows EXCEPT ![r.id] = Columns(@, data)] ELSE rows
    <3>1. CASE r.id \notin Rows
      BY <1>2, <2>4, <3>1
    <3>2. CASE r.id \in Rows
      <4>1. r.id \in Ids /\ rows[r.id] \in RowType /\ rows[r.id] # Gone
        BY <1>1, <3>2 DEF Rows, Typed
      <4>2. data \in RowType
        BY <1>1, <2>1, <2>2, <2>4, OperationFacts, MergedType DEF Merging
      <4> DEFINE row == Columns(rows[r.id], data)
      <4>3. row \in RowType /\ row.status = rows[r.id].status
        BY <4>1, <4>2 DEF Columns, RowType
      <4>4. rows' = [rows EXCEPT ![r.id] = row]
        BY <2>4, <3>2
      <4> HIDE DEF row
      <4>5. rows' \in [Ids -> RowType \cup {Gone}] /\ rows'[r.id] = row
            /\ \A s \in Ids \ {r.id} : rows'[s] = rows[s]
        BY <1>1, <4>1, <4>3, <4>4 DEF Typed
      <4>6. Fresh'
        BY <1>1, <2>4, <4>1, <4>5 DEF Fresh
      <4> QED BY <1>1, <2>4, <4>3, <4>5, <4>6 DEF Typed
    <3> QED BY <3>1, <3>2
  <2> QED BY <1>2, <1>3, <2>3, <2>4 DEF Write
<1>4. CASE RemoveRows(c)
  <2>1. last' = last /\ \E removed : rows' = [s \in Ids |-> IF s \in removed THEN Gone ELSE rows[s]]
    BY <1>4 DEF RemoveRows
  <2> QED BY <1>1, <2>1 DEF Typed, Fresh
<1>5. Ask(c) \/ Find(c) \/ Reread(c) \/ Unregister(c) \/ Register(c) \/ StoreRaises(c) => UNCHANGED <<rows, last>>
  BY DEF Ask, Find, Reread, Unregister, Register, StoreRaises
<1> QED BY <1>2, <1>3, <1>4, <1>5 DEF Step

LEMMA LooseRequest ==
    ASSUME Loose, NEW c \in Clients, Ask(c) \/ Step(c)
    PROVE  request' \in [Clients -> Requests] /\ Merging' /\ jobs' \in [Ids -> Triggers \cup {"none"}]
<1> DEFINE r == request[c]
<1>1. Typed /\ Merging /\ {} \in SUBSET Ids /\ Gone \in RowType \cup {Gone} /\ 0 \in Nat
  BY DEF Loose
<1>2. Typed => jobs \in [Ids -> Triggers \cup {"none"}]
  BY DEF Typed
<1>3. ASSUME Busy(c)
      PROVE  /\ r.op \in Operations /\ r.id \in Nat /\ r.seen \in RowType \cup {Gone}
             /\ r.left \in SUBSET Ids
  BY <1>1, <1>3, RequestFacts
<1>4. CASE Ask(c)
  <2>1. PICK op \in Operations : request' = [request EXCEPT ![c] = At("find", op, 0, Gone, {})]
    BY <1>4 DEF Ask
  <2>2. At("find", op, 0, Gone, {}) \in Requests /\ At("find", op, 0, Gone, {}).stage = "find"
    BY DEF At, Requests
  <2>3. request' \in [Clients -> Requests] /\ request'[c].stage = "find"
        /\ \A d \in Clients : d # c => request'[d] = request[d]
    BY <1>1, <2>1, <2>2 DEF Typed
  <2>4. Merging'
    BY <1>1, <2>3 DEF Merging, Busy
  <2> QED BY <1>1, <1>2, <1>4, <2>3, <2>4 DEF Ask
<1>5. CASE Find(c)
  <2>1. Busy(c) /\ jobs' = jobs
    BY <1>5 DEF Find, In, Busy
  <2>2. CASE r.op.kind = "create" /\ Go(c, "write", 0, Gone, {})
    BY <1>1, <1>2, <2>1, <2>2, LooseGo
  <2>3. CASE r.op.kind = "update" /\ r.op.id \in Rows /\ Go(c, "write", r.op.id, rows[r.op.id], {})
    <3>1. r.op.id \in Nat /\ rows[r.op.id] \in RowType
      BY <1>1, <2>3, IdFacts DEF Rows, Typed
    <3> QED BY <1>1, <1>2, <2>1, <2>3, <3>1, LooseGo
  <2>4. CASE r.op.kind = "delete" /\ r.op.id \in Rows /\ Go(c, "unregister", r.op.id, Gone, {r.op.id})
    <3> DEFINE id == r.op.id  left == {r.op.id}
    <3>1. id \in Nat /\ left \in SUBSET Ids
      BY <2>4, IdFacts DEF Rows
    <3>2. Go(c, "unregister", id, Gone, left)
      BY <2>4
    <3> HIDE DEF id, left
    <3>3. request' \in [Clients -> Requests] /\ Merging'
      BY <1>1, <2>1, <3>1, <3>2, LooseGo
    <3> QED BY <1>1, <1>2, <2>1, <3>3
  <2>5. CASE Go(c, "unregister", 0, Gone, ListFor(r.op.connection))
    <3>1. ListFor(r.op.connection) \in SUBSET Ids
      BY DEF ListFor, Rows
    <3> QED BY <1>1, <1>2, <2>1, <2>5, <3>1, LooseGo
  <2>6. CASE End(c)
    BY <1>1, <1>2, <2>1, <2>6, LooseEnd
  <2> QED BY <1>5, <2>2, <2>3, <2>4, <2>5, <2>6 DEF Find
<1>6. CASE Write(c)
  <2>1. Busy(c) /\ jobs' = jobs
    BY <1>6 DEF Write, In, Busy
  <2>2. CASE last + 1 \in Ids /\ Go(c, "reread", last + 1, Gone, {})
    <3>1. last + 1 \in Nat
      BY <2>2, IdFacts
    <3> QED BY <1>1, <1>2, <2>1, <2>2, <3>1, LooseGo
  <2>3. CASE Go(c, "reread", r.id, Gone, {})
    BY <1>1, <1>2, <1>3, <2>1, <2>3, LooseGo
  <2>4. CASE End(c)
    BY <1>1, <1>2, <2>1, <2>4, LooseEnd
  <2> QED BY <1>6, <2>2, <2>3, <2>4 DEF Write
<1>7. CASE Reread(c)
  <2>1. Busy(c) /\ jobs' = jobs
    BY <1>7 DEF Reread, In, Busy
  <2>2. CASE r.id \in Rows /\ Go(c, "unregister", r.id, rows[r.id], {r.id})
    <3> DEFINE left == {r.id}
    <3>1. left \in SUBSET Ids /\ rows[r.id] \in RowType \cup {Gone}
      BY <1>1, <2>2 DEF Rows, Typed
    <3>2. Go(c, "unregister", r.id, rows[r.id], left)
      BY <2>2
    <3> HIDE DEF left
    <3>3. request' \in [Clients -> Requests] /\ Merging'
      BY <1>1, <1>3, <2>1, <3>1, <3>2, LooseGo
    <3> QED BY <1>1, <1>2, <2>1, <3>3
  <2>3. CASE End(c)
    BY <1>1, <1>2, <2>1, <2>3, LooseEnd
  <2> QED BY <1>7, <2>2, <2>3 DEF Reread
<1>8. CASE Unregister(c)
  <2>1. Busy(c)
    BY <1>8 DEF Unregister, In, Busy
  <2>2. ASSUME NEW s \in r.left, jobs' = [jobs EXCEPT ![s] = "none"],
               Go(c, "unregister", r.id, r.seen, r.left \ {s})
        PROVE  request' \in [Clients -> Requests] /\ Merging' /\ jobs' \in [Ids -> Triggers \cup {"none"}]
    <3>1. r.left \ {s} \in SUBSET Ids
      BY <1>3, <2>1
    <3>2. jobs' \in [Ids -> Triggers \cup {"none"}]
      BY <1>1, <1>2, <2>2
    <3> QED BY <1>1, <1>3, <2>1, <2>2, <3>1, <3>2, LooseGo
  <2>3. CASE jobs' = jobs /\ Go(c, "remove", r.id, Gone, {})
    BY <1>1, <1>2, <1>3, <2>1, <2>3, LooseGo
  <2>4. CASE jobs' = jobs /\ Go(c, "register", r.id, r.seen, {})
    <3>1. r.id \in Nat /\ r.seen \in RowType \cup {Gone}
      BY <1>3, <2>1
    <3>2. request' \in [Clients -> Requests] /\ Merging'
      BY <1>1, <2>1, <2>4, <3>1, LooseGo
    <3> QED BY <1>1, <1>2, <2>4, <3>2
  <2>5. CASE jobs' = jobs /\ End(c)
    BY <1>1, <1>2, <2>5, LooseEnd
  <2> QED BY <1>8, <2>2, <2>3, <2>4, <2>5 DEF Unregister
<1>9. CASE Register(c)
  <2>1. Busy(c) /\ End(c) /\ jobs' = [jobs EXCEPT ![r.id] = r.seen.trigger]
    BY <1>9 DEF Register, In, Busy
  <2>2. r.seen.trigger \in Triggers \cup {"none"}
    BY <1>3, <2>1, GoneFacts DEF Gone
  <2> QED BY <1>1, <1>2, <2>1, <2>2, LooseEnd
<1>10. CASE RemoveRows(c)
  BY <1>1, <1>2, <1>10, LooseEnd DEF RemoveRows
<1>11. CASE StoreRaises(c)
  BY <1>1, <1>2, <1>11, LooseEnd DEF StoreRaises
<1> QED BY <1>4, <1>5, <1>6, <1>7, <1>8, <1>9, <1>10, <1>11 DEF Step

LEMMA LooseNext == Loose /\ [Next]_vars => Loose'
<1> SUFFICES ASSUME Loose, [Next]_vars PROVE Loose'
  OBVIOUS
<1>1. Typed /\ Fresh /\ Merging
  BY DEF Loose
<1>2. ASSUME NEW c \in Clients, Ask(c) \/ Step(c) PROVE Loose'
  <2>1. runs' = runs
    BY <1>2 DEF Ask, Step, Find, Write, Reread, Unregister, Register, RemoveRows, StoreRaises
  <2>2. rows' \in [Ids -> RowType \cup {Gone}] /\ last' \in Nat /\ Fresh'
    BY <1>2, RowsOfRequest
  <2>3. request' \in [Clients -> Requests] /\ Merging' /\ jobs' \in [Ids -> Triggers \cup {"none"}]
    BY <1>2, LooseRequest
  <2> QED BY <1>1, <2>1, <2>2, <2>3 DEF Loose, Typed
<1>3. ASSUME NEW w \in Workers, Execute(w) \/ \E s \in Ids : Fire(s, w) \/ RunNow(s, w) PROVE Loose'
  <2>1. UNCHANGED <<jobs, connections, last, request, up, half>> /\ runs' \in [Workers -> Executions]
        /\ rows' \in [Ids -> RowType \cup {Gone}]
        /\ \A s \in Ids : rows[s] = Gone => rows'[s] = Gone
    BY <1>1, <1>3, RunFacts
  <2> QED BY <1>1, <2>1 DEF Loose, Typed, Fresh, Merging, Busy
<1>4. CASE Crash
  <2>1. Typed'
    BY <1>1, <1>4 DEF Crash, Typed, NoJobs, Requests, Executions
  <2> QED BY <1>1, <1>4, <2>1 DEF Crash, Loose, Fresh, Merging, Busy
<1>5. CASE Start
  <2>1. \A s \in Ids : rows[s].enabled => rows[s].trigger \in Triggers
    BY <1>1, GoneFacts DEF Typed
  <2>2. Typed'
    BY <1>1, <1>5, <2>1 DEF Start, Loaded, Typed
  <2> QED BY <1>1, <1>5, <2>2 DEF Start, Loose, Fresh, Merging, Busy
<1>6. CASE UNCHANGED vars
  BY <1>1, <1>6 DEF vars, Loose, Typed, Fresh, Merging, Busy
<1> QED BY <1>2, <1>3, <1>4, <1>5, <1>6 DEF Next

\* The outcome shown for a schedule changes only when an execution of it ends,
\* and is the outcome of that execution, however the requests of several clients
\* overlap: the UPDATE of a PUT leaves last_status alone (update_schedule of
\* schedule_routes.py).  Spec => StatusIsTheLastOne.
THEOREM OutcomesAreOfExecutions == Spec => StatusIsTheLastOne
<1>1. Init => Loose
  <2> SUFFICES ASSUME Init PROVE Loose
    OBVIOUS
  <2>1. Typed
    BY DEF Init, Typed, NoJobs, Requests, Executions
  <2> QED BY <2>1 DEF Init, Loose, Fresh, Merging, Busy
<1>2. Loose /\ [Next]_vars =>
          [\A s \in Ids : rows'[s].status # rows[s].status /\ rows'[s] # Gone =>
              \E w \in Workers : /\ runs[w] # Idle /\ runs'[w] = Idle
                                 /\ runs[w].schedule = s /\ runs[w].status = rows'[s].status]_vars
  <2> SUFFICES ASSUME Loose, [Next]_vars, NEW s \in Ids, rows'[s].status # rows[s].status, rows'[s] # Gone
               PROVE  \E w \in Workers : /\ runs[w] # Idle /\ runs'[w] = Idle
                                         /\ runs[w].schedule = s /\ runs[w].status = rows'[s].status
    OBVIOUS
  <2>1. ASSUME NEW c \in Clients, Ask(c) \/ Step(c) PROVE FALSE
    BY <2>1, RowsOfRequest
  <2>2. ASSUME NEW w \in Workers, Execute(w) \/ \E i \in Ids : Fire(i, w) \/ RunNow(i, w)
        PROVE  /\ runs[w] # Idle /\ runs'[w] = Idle
               /\ runs[w].schedule = s /\ runs[w].status = rows'[s].status
    BY <2>2, RunFacts DEF Loose
  <2>3. ~(Crash \/ Start \/ UNCHANGED vars)
    BY DEF Crash, Start, vars
  <2> QED BY <2>1, <2>2, <2>3 DEF Next
<1> QED BY <1>1, <1>2, LooseNext, PTL DEF Spec, StatusIsTheLastOne

=============================================================================
