----------------------------- MODULE Validation -----------------------------
(***************************************************************************)
(* app/utils/validation.py: what the API makes of the JSON it is sent.     *)
(*                                                                         *)
(* A JSON value is a tuple: its kind and what it holds.  A text that       *)
(* spells a number is of a kind of its own, for int() accepts it.  A       *)
(* cleaned value is a JSON value again, or Bad where the code raises.      *)
(***************************************************************************)
EXTENDS Naturals, FiniteSets, SequencesExt

CONSTANTS
    Times,          \* the texts that match HH:MM
    Crons,          \* the texts that CronTrigger.from_crontab accepts
    Words,          \* the texts that are names of tables, databases, hosts
    LowerCase       \* LowerCase[s] : the text s in lower case, where it differs

Compressions == {"none", "gzip", "zip"}
BackupTypes == {"full", "selective"}
Frequencies == {"hourly", "every_6_hours", "daily", "weekly", "monthly", "custom"}
DBTypes == {"mysql", "postgresql", "sqlite", "mongodb"}

ASSUME TextsAssumption ==
    /\ {"", " ", "longer than any limit"} \cap (Times \cup Crons \cup Words) = {}
    /\ DOMAIN LowerCase \cap (Compressions \cup BackupTypes \cup Frequencies \cup DBTypes) = {}

Null == <<"null">>
Bad == <<"bad">>
Text(s) == <<"text", s>>
Digits(n) == <<"digits", n>>
Num(n) == <<"int", n>>
Bool(b) == <<"bool", b>>
List(q) == <<"list", q>>
TooLong == Text("longer than any limit")
Texts(S) == {Text(s) : s \in S}

\* What the kinds promise of a value that came in as JSON.
JSONValue(v) ==
    /\ v[1] = "bool" => v \in {Bool(TRUE), Bool(FALSE)}
    /\ v[1] = "list" => v = List(v[2]) /\ v[2] \in Seq(STRING)

\* dict.update: b with a over it.
Over(a, b) == [key \in DOMAIN a \cup DOMAIN b |-> IF key \in DOMAIN a THEN a[key] ELSE b[key]]

Get(data, key) == IF key \in DOMAIN data THEN data[key] ELSE Null

Lower(v) == IF v[1] = "text" /\ v[2] \in DOMAIN LowerCase THEN Text(LowerCase[v[2]]) ELSE v

\* default is Bad for a required key.  Numbers are taken for text.
CleanStr(data, key, default) ==
    LET v == Get(data, key)
    IN CASE v \in {Null, Text(""), Text(" ")} -> default
         [] v[1] \in {"bool", "list"} \/ v = TooLong -> Bad
         [] v[1] = "int" -> Digits(v[2])
         [] OTHER -> v

\* As for texts, default is Bad for a required key.
CleanInt(data, key, default, minimum, maximum) ==
    LET v == Get(data, key)
    IN CASE v \in {Null, Text("")} -> default
         [] v[1] \in {"int", "digits"} /\ v[2] \in minimum .. maximum -> Num(v[2])
         [] OTHER -> Bad

CleanBool(data, key, default) ==
    LET v == Get(data, key)
    IN CASE v = Null -> default
         [] v[1] = "bool" -> v
         [] v \in {Text("on"), Digits(1), Num(1)} -> Bool(TRUE)
         [] v \in {Text("off"), Digits(0), Num(0)} -> Bool(FALSE)
         [] OTHER -> Bad

OneOf(v, S) == IF v \in Texts(S) THEN v ELSE Bad

\* Repetitions are dropped, the order is kept.
AddNew(q, t) == IF Contains(q, t) THEN q ELSE Append(q, t)
Distinct(q) ==
    LET cleaned[i \in 0 .. Len(q)] == IF i = 0 THEN <<>> ELSE AddNew(cleaned[i - 1], q[i])
    IN cleaned[Len(q)]

TableNames(v) ==
    CASE v = Null -> List(<<>>)
      [] v[1] = "list" /\ ToSet(v[2]) \subseteq Words -> List(Distinct(v[2]))
      [] OTHER -> Bad

Accepted(payload) == \A key \in DOMAIN payload : payload[key] # Bad

----------------------------------------------------------------------------
(* The payloads *)

TablesFor(type, tables) ==
    IF tables = Bad \/ (type = Text("selective") /\ tables = List(<<>>)) THEN Bad
    ELSE IF type = Text("full") THEN List(<<>>)
    ELSE tables

BackupPayload(data) ==
    LET type == OneOf(Lower(CleanStr(data, "backup_type", Text("full"))), BackupTypes)
    IN [connection_id |-> CleanInt(data, "connection_id", Bad, 1, 9999),
        backup_type |-> type,
        tables |-> TablesFor(type, TableNames(Get(data, "tables"))),
        compression |-> OneOf(Lower(CleanStr(data, "compression", Text("gzip"))), Compressions),
        encryption |-> CleanBool(data, "encryption", Bool(FALSE)),
        verify |-> CleanBool(data, "verify", Bool(TRUE)),
        destination |-> CleanStr(data, "destination", Null)]

CronFor(frequency, cron) ==
    IF cron = Bad \/ (frequency = Text("custom") /\ cron \notin Texts(Crons)) THEN Bad
    ELSE IF frequency = Text("custom") THEN cron
    ELSE Null

SchedulePayload(data) ==
    LET frequency == OneOf(Lower(CleanStr(data, "frequency", Bad)), Frequencies)
        own == [name |-> CleanStr(data, "name", Null),
                frequency |-> frequency,
                schedule_time |-> OneOf(CleanStr(data, "schedule_time", Text("02:00")), Times),
                cron_expression |-> CronFor(frequency, CleanStr(data, "cron_expression", Null)),
                day_of_week |-> CleanInt(data, "day_of_week", Num(0), 0, 6),
                day_of_month |-> CleanInt(data, "day_of_month", Num(1), 1, 28),
                retention_days |-> CleanInt(data, "retention_days", Num(30), 0, 3650),
                keep_daily |-> CleanInt(data, "keep_daily", Num(0), 0, 365),
                keep_weekly |-> CleanInt(data, "keep_weekly", Num(0), 0, 520),
                keep_monthly |-> CleanInt(data, "keep_monthly", Num(0), 0, 120),
                enabled |-> CleanBool(data, "enabled", Bool(TRUE))]
    IN Over(own, BackupPayload(data))

\* A file name, which sqlite resolves, or the name of a database on a server;
\* an empty password is none.
ConnectionPayload(data) ==
    LET type == OneOf(Lower(CleanStr(data, "database_type", Bad)), DBTypes)
        server == type # Text("sqlite")
        database == CleanStr(data, "database_name", Bad)
        password == Get(data, "password")
        default == IF type = Text("postgresql") THEN 5432 ELSE IF type = Text("mysql") THEN 3306 ELSE 27017
    IN [name |-> CleanStr(data, "name", Bad), database_type |-> type,
        database_name |-> IF server THEN OneOf(database, Words) ELSE database,
        host |-> IF server THEN OneOf(CleanStr(data, "host", Text("localhost")), Words) ELSE Null,
        port |-> IF server THEN CleanInt(data, "port", Num(default), 1, 65535) ELSE Null,
        username |-> IF ~server THEN Null
                     ELSE CleanStr(data, "username", IF type = Text("mongodb") THEN Null ELSE Bad),
        password |-> IF ~server \/ password \in {Null, Text("")} THEN Null
                     ELSE IF password[1] \in {"text", "digits"} /\ password # TooLong THEN password
                     ELSE Bad]
=============================================================================
