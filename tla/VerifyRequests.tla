--------------------------- MODULE VerifyRequests ---------------------------
(***************************************************************************)
(* BackupService beside POST /backups/<id>/verify: get_backup, then the    *)
(* check of the file that the row named when it was read, then the verdict *)
(* on whatever the row has become.  The check may take hours.              *)
(***************************************************************************)
EXTENDS BackupService

CONSTANTS
    Checkers,       \* threads serving verify requests
    CheckAnyRow     \* are rows verified that do not say success?

ASSUME VerifyRequestsAssumption == CheckAnyRow \in BOOLEAN

VARIABLE checks     \* checks[v] : the verification that v works on, or NoCheck

vvars == <<vars, checks>>

NoCheck == [id |-> 0, path |-> NoName, row |-> Absent, answer |-> "none"]

\* Mutated form: every row has the button.
ShownForAll(b) == TRUE

\* The pages show Verify for a success row only; the route takes any.
Offered(b) == CheckAnyRow \/ rows[b].status = "success"

AskForCheck(v, b) ==
    /\ up /\ checks[v] = NoCheck /\ Present(b) /\ Offered(b)
    /\ checks' = [checks EXCEPT ![v] = [id |-> b, path |-> rows[b].path, row |-> rows[b], answer |-> "none"]]
    /\ UNCHANGED vars

\* resolve_backup_path, the checksum, and the deep check if it is asked for
AnswersFor(c) ==
    IF c.path = NoName THEN {"missing"}
    ELSE CASE disk[c.path] = NoFile -> {"missing"}
           [] disk[c.path] = c.id   -> IF "deep" \in Faults THEN {"valid", "invalid"} ELSE {"valid"}
           [] OTHER                 -> {"invalid"}

\* What leaves verify_backup as an exception (a read error, a full temporary
\* directory) ends the request without a verdict.
CheckFile(v) ==
    LET c == checks[v]
    IN /\ up /\ c # NoCheck /\ c.answer = "none"
       /\ \/ \E answer \in AnswersFor(c) : checks' = [checks EXCEPT ![v].answer = answer]
          \/ /\ "unexpected" \in Faults /\ c.path # NoName /\ disk[c.path] # NoFile
             /\ checks' = [checks EXCEPT ![v] = NoCheck]
       /\ UNCHANGED vars

\* Mutated form: the row as it was read is written back with the verdict.
WholeRow(c) == c.row

RowNow(c) == rows[c.id]

StoreVerdict(v) ==
    LET c == checks[v]
    IN /\ up /\ c # NoCheck /\ c.answer # "none"
       /\ SetRow(c.id, [RowNow(c) EXCEPT !.verification = c.answer])
       /\ checks' = [checks EXCEPT ![v] = NoCheck]
       /\ UNCHANGED <<nextId, disk, parts, clock, up, pc, locals, deleting>>

\* A crash ends the checks too.
Serve ==
    /\ Next
    /\ checks' = IF up' THEN checks ELSE [v \in Checkers |-> NoCheck]

VerifyInit == Init /\ checks = [v \in Checkers |-> NoCheck]

VerifyNext ==
    \/ Serve
    \/ \E v \in Checkers : CheckFile(v) \/ StoreVerdict(v) \/ \E b \in Ids : AskForCheck(v, b)

VerifySpec == VerifyInit /\ [][VerifyNext]_vvars

\* "The backup file is missing", "The backup may be corrupted": no row says so
\* of a success whose file is in its place and sound; only a deep check may fail
\* on a sound file (with another key, for instance).
VerdictIsTrue ==
    \A b \in Ids : rows[b].status = "success" /\ disk[rows[b].path] = b =>
        \/ rows[b].verification \in {"valid", "not_verified"}
        \/ "deep" \in Faults /\ rows[b].verification = "invalid"
=============================================================================
