------------------------------ MODULE Schedules ------------------------------
(***************************************************************************)
(* One row of the schedules table over a sequence of POST and PUT          *)
(* requests: app/api/schedule_routes.py with the validation, the model's   *)
(* to_dict and the repository's encoding, and the trigger that the         *)
(* scheduler builds from the row (build_trigger).                          *)
(***************************************************************************)
EXTENDS Validation

CONSTANT ScheduleBodies     \* the request bodies

ASSUME BodiesAssumption == \A body \in ScheduleBodies : \A key \in DOMAIN body : JSONValue(body[key])

VARIABLE row        \* the stored row, or None

None == [key \in {} |-> Null]
Flags == {"encryption", "verify", "enabled"}

\* schedule_repository._prepare
Encode(payload) ==
    [key \in DOMAIN payload |->
        CASE key = "tables" -> <<"json", payload[key][2]>>
          [] key \in Flags -> Num(IF payload[key][2] THEN 1 ELSE 0)
          [] OTHER -> payload[key]]

\* Mutated form: the list of tables is handed on as it is stored.
RawTables(stored) == <<"text", stored[2]>>

\* parse_json_list
TableList(stored) == List(stored[2])

\* Schedule.to_dict
ToDict(stored) ==
    [key \in DOMAIN stored |->
        CASE key = "tables" -> TableList(stored[key])
          [] key \in Flags -> Bool(stored[key] = Num(1))
          [] OTHER -> stored[key]]

\* Mutated form: what the body does not say takes its default.
BodyWithKeys(stored, body) ==
    Over(body, [connection_id |-> stored.connection_id, frequency |-> stored.frequency])

MergedBody(stored, body) == Over(body, ToDict(stored))

\* The row after a request; a rejected one changes nothing.
Stored(data, otherwise) ==
    LET payload == SchedulePayload(data) IN IF Accepted(payload) THEN Encode(payload) ELSE otherwise
AfterPut(body) == Stored(MergedBody(row, body), row)

CreateSchedule(body) == row = None /\ row' = Stored(body, row)
UpdateSchedule(body) == row # None /\ row' = AfterPut(body)

RowInit == row = None
RowNext == \E body \in ScheduleBodies : CreateSchedule(body) \/ UpdateSchedule(body)
RowSpec == RowInit /\ [][RowNext]_row

\* build_trigger: the fields that a cron trigger constrains, or None.
Trigger(stored) ==
    LET frequency == stored.frequency[2]
        time == stored.schedule_time
    IN CASE frequency = "hourly" -> [minute |-> time]
         [] frequency = "every_6_hours" -> [minute |-> time, hour |-> Text("*/6")]
         [] frequency = "daily" -> [minute |-> time, hour |-> time]
         [] frequency = "weekly" -> [minute |-> time, hour |-> time, day_of_week |-> stored.day_of_week]
         [] frequency = "monthly" -> [minute |-> time, hour |-> time, day |-> stored.day_of_month]
         [] frequency = "custom" /\ stored.cron_expression # Null -> [crontab |-> stored.cron_expression]
         [] OTHER -> None

----------------------------------------------------------------------------
(* Properties *)

\* No sequence of requests leaves a row that the API would not take back as it
\* is, so none with an expression or tables its kind has no use for, or one from
\* which the scheduler cannot build a trigger: enabled, it would never run.
RowsAreFixpoints ==
    row # None => LET payload == SchedulePayload(ToDict(row))
                  IN Accepted(payload) /\ Encode(payload) = row /\ Trigger(row) # None

\* A PUT changes the fields it names; of the others it may only clear the
\* cron expression and the tables that the new kind of schedule has no use for.
PutTouchesOnlyItsFields ==
    row # None => \A body \in ScheduleBodies : LET new == AfterPut(body) IN
        new # row => \A key \in DOMAIN row \ DOMAIN body :
        \/ new[key] = row[key]
        \/ key = "cron_expression" /\ "frequency" \in DOMAIN body /\ new[key] = Null
        \/ key = "tables" /\ "backup_type" \in DOMAIN body /\ new[key] = <<"json", <<>>>>
=============================================================================
