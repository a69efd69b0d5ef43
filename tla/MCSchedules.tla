---------------------------- MODULE MCSchedules ----------------------------
(***************************************************************************)
(* Schedules and connections: what the API stores of a schedule, what it   *)
(* stores of a connection beside the jobs that use it, and the schedules'  *)
(* jobs.  The three share no state, so each behaviour exercises one.       *)
(***************************************************************************)
EXTENDS Scheduler, Schedules, Connections, TLC

CONSTANTS
    Parts,              \* the models exercised
    c1, c2, w1, w2

OneTime == {"02:00", "23:59"}
OneCron == {"0 3 * * *"}
SomeWords == {"users", "orders", "sales", "localhost"}
Capitals == "Daily" :> "daily" @@ "Shop" :> "shop"

\* Each request about a schedule names at most two fields besides the connection,
\* with values of every class that a check tells apart.
Inputs == [
    frequency |-> {Null, Text("daily"), Text("Daily"), Text("hourly"), Text("every_6_hours"), Text("weekly"),
                  Text("monthly"), Text("custom"), Text("yearly"), Num(5)},
    schedule_time |-> {Null, Text("23:59"), Text("24:00"), TooLong},
    cron_expression |-> {Null, Text(""), Text("0 3 * * *"), Text("every day"), Bool(TRUE)},
    backup_type |-> {Text("full"), Text("selective")},
    tables |-> {Null, List(<<>>), List(<<"users", "orders", "users">>), List(<<"a b">>), Text("users")},
    day_of_week |-> {Text(""), Num(6), Num(7), Digits(3), Bool(TRUE)},
    retention_days |-> {Null, Num(0), Num(3651)},
    enabled |-> {Text("off"), Text("maybe"), Bool(TRUE), Num(2)}]

Connected == "connection_id" :> Num(1)
OneField == UNION {{key :> v : v \in Inputs[key]} : key \in DOMAIN Inputs}
TwoFields == {a @@ b : a, b \in OneField}
SomeScheduleBodies == TwoFields \cup {Connected @@ b : b \in TwoFields} \cup {Connected, None}

\* A server and a file, under names that differ in case, with and without
\* passwords, and bodies to be refused.
Server(name, password) ==
    "database_type" :> Text("mysql") @@ "name" :> Text(name) @@ "username" :> Text("u")
    @@ "database_name" :> Text("sales") @@ "password" :> password
File(name) ==
    "database_type" :> Text("sqlite") @@ "name" :> Text(name) @@ "database_name" :> Text("f.db")
    @@ "password" :> Text("pw") @@ "port" :> Num(0)

SomeConnectionBodies ==
    {Server("shop", Text("pw")), Server("shop", Null), Server("Shop", Text("")), File("Shop"),
     File("file"), "port" :> Num(0) @@ Server("shop", Null),
     "database_type" :> Text("postgresql") @@ Server("pg", Text("pw"))}
SomeOverrides == {Null, Text("copy")}

VARIABLE part

scheduleVars == <<vars, row, connectionVars, part>>

SchedulesInit == part \in Parts /\ Init /\ RowInit /\ ConnectionInit

Scheduling(step) == part = "jobs" /\ step /\ UNCHANGED <<row, connectionVars, part>>

SchedulesNext ==
    \/ Scheduling(Next)
    \/ part = "rows" /\ RowNext /\ UNCHANGED <<vars, connectionVars, part>>
    \/ part = "connections" /\ ConnectionNext /\ UNCHANGED <<vars, row, part>>

\* The fairness of Scheduler's FairSpec.
SchedulesSpec ==
    /\ SchedulesInit /\ [][SchedulesNext]_scheduleVars
    /\ \A c \in Clients : WF_scheduleVars(Scheduling(Step(c)))
    /\ \A w \in Workers : WF_scheduleVars(Scheduling(Execute(w)))
    /\ \A s \in Ids : WF_scheduleVars(Scheduling(\E w \in Workers : Fire(s, w)))
=============================================================================
