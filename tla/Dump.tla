-------------------------------- MODULE Dump --------------------------------
(***************************************************************************)
(* Taking the raw dump of a database that is in use: _table_snapshot and   *)
(* create_backup of the four adapters, with the external tools behind      *)
(* app/utils/command_runner.py.  The applications that use the database    *)
(* write, create and drop tables meanwhile.                                *)
(***************************************************************************)
EXTENDS Naturals

CONSTANTS
    Tables,
    Engines,    \* of "sqlite", "mysql", "postgresql" and "mongodb"
    MaxWrites   \* bound on what the applications do

ASSUME DumpAssumption ==
    Engines \subseteq {"sqlite", "mysql", "postgresql", "mongodb"} /\ MaxWrites \in Nat

VARIABLES
    db,         \* db[t] : is t there, and the writes that last made its definition and its rows
    moments,    \* the states db has been in since the backup began
    writes,
    altered,    \* history: was a table redefined while its definition was read and its rows were not?
    engine,     \* the kind of database
    selection,  \* the tables of a selective backup, or {}
    phase,      \* where create_backup is
    listed,     \* the tables the backup's row will name
    table,      \* the table whose definition was copied last ...
    shape,      \* ... and that definition
    view,       \* the state the reading transaction sees, or NoView
    names,      \* the tables the tool is going to dump
    raw         \* the tables in the raw file, as dumped

dumpVars == <<db, moments, writes, altered, engine, selection, phase, listed, table, shape, view, names, raw>>
application == <<db, moments, writes, altered>>
request == <<engine, selection>>
copying == <<listed, table, shape, view, names, raw>>

Gone == [there |-> FALSE, shape |-> 0, rows |-> 0]
NoView == [t \in {} |-> Gone]
Present(state) == {t \in Tables : state[t].there}
Wanted(state) == IF selection = {} THEN Present(state) ELSE selection \cap Present(state)

----------------------------------------------------------------------------
(* The applications *)

Write(change) ==
    /\ writes < MaxWrites /\ phase \notin {"ok", "error"}
    /\ db' = change /\ moments' = moments \cup {change} /\ writes' = writes + 1
    /\ UNCHANGED <<request, phase, copying>>

\* A transaction may write several tables.
WriteRows ==
    /\ \E ts \in SUBSET Present(db) \ {{}} :
          Write([t \in Tables |-> IF t \in ts THEN [db[t] EXCEPT !.rows = writes + 1] ELSE db[t]])
    /\ UNCHANGED altered

\* Is t's definition read and its rows not yet?
InGap(t) ==
    \/ engine = "sqlite" /\ phase = "insert" /\ view = NoView /\ t = table
    \/ engine = "mysql" /\ phase \in {"names", "dump"}

\* CREATE, ALTER, DROP
Redefine(t) ==
    /\ \/ ~db[t].there /\ Write([db EXCEPT ![t] = [there |-> TRUE, shape |-> writes + 1, rows |-> writes + 1]])
       \/ db[t].there /\ Write([db EXCEPT ![t].shape = writes + 1])
       \/ db[t].there /\ Write([db EXCEPT ![t] = Gone])
    /\ altered' = (altered \/ InGap(t))

Application == WriteRows \/ \E t \in Tables : Redefine(t)

----------------------------------------------------------------------------
(* create_backup *)

Fail == phase' = "error" /\ UNCHANGED copying

\* tables or _table_snapshot(adapter), which is best effort
List ==
    /\ phase = "list" /\ phase' = "begin"
    /\ listed' \in IF selection # {} THEN {selection} ELSE {Present(db), {}}
    /\ UNCHANGED <<application, request, table, shape, view, names, raw>>

AsIs(t, state) == [shape |-> state[t].shape, rows |-> state[t].rows]

\* One call of the backup API copies every page.
CopyAll ==
    /\ phase = "begin" /\ engine = "sqlite" /\ selection = {}
    /\ \/ /\ raw' = [t \in Present(db) |-> AsIs(t, db)] /\ phase' = "ok"
          /\ UNCHANGED <<listed, table, shape, view, names>>
       \/ Fail
    /\ UNCHANGED <<application, request>>

Check ==
    /\ phase = "begin" /\ engine = "sqlite" /\ selection # {}
    /\ \/ selection \subseteq Present(db) /\ phase' = "define" /\ UNCHANGED copying
       \/ ~(selection \subseteq Present(db)) /\ Fail
    /\ UNCHANGED <<application, request>>

\* Mutated form: every statement is a transaction of its own.
Latest == db

\* The first INSERT begins a transaction, and with it a read of the source: what
\* is read before it, the first table's definition, is of an earlier moment.
Source == IF view = NoView THEN db ELSE view

\* Mutated form: tables that are gone are passed over.
ToCopyIfThere == selection \cap Present(Source)

ToCopy == selection

Define ==
    /\ phase = "define"
    /\ \/ \E t \in ToCopy \ DOMAIN raw : /\ t \in Present(Source)
                                         /\ table' = t /\ shape' = Source[t].shape
                                         /\ phase' = "insert"
                                         /\ UNCHANGED <<listed, view, names, raw>>
       \/ ~(ToCopy \subseteq Present(Source)) /\ Fail
    /\ UNCHANGED <<application, request>>

\* INSERT ... SELECT *, which only asks for as many columns as the definition
\* that was copied has.  After the last table come the indexes, the triggers and
\* the commit.
Insert ==
    /\ phase = "insert"
    /\ \/ /\ table \in Present(Source)
          /\ view' = Source
          /\ raw' = [t \in DOMAIN raw \cup {table} |->
                        IF t = table THEN [shape |-> shape, rows |-> Source[t].rows] ELSE raw[t]]
          /\ phase' = IF ToCopy \subseteq DOMAIN raw' THEN "ok" ELSE "define"
          /\ UNCHANGED <<listed, table, shape, names>>
       \/ Fail
    /\ UNCHANGED <<application, request>>

\* find_executable; the password goes into an option file or the environment.
FindTool ==
    /\ phase = "begin" /\ engine # "sqlite"
    /\ \/ phase' = "tool" /\ UNCHANGED copying
       \/ Fail
    /\ UNCHANGED <<application, request>>

\* The tool begins its transaction, if it has one.
ToolBegins ==
    /\ phase = "tool" /\ phase' = "names"
    /\ view' = db
    /\ UNCHANGED <<application, request, listed, table, shape, names, raw>>

\* Definitions: pg_dump reads them in its transaction and locks the tables; a
\* MySQL transaction does not isolate them.
Defined == IF engine = "postgresql" THEN view ELSE db

\* mysqldump insists on the tables it is given, pg_dump on one of them.
ToolLists ==
    /\ phase = "names" /\ phase' = "dump"
    /\ engine = "mysql" => selection \subseteq Present(Defined)
    /\ engine = "postgresql" /\ selection # {} => Wanted(Defined) # {}
    /\ names' = Wanted(Defined)
    /\ UNCHANGED <<application, request, listed, table, shape, view, raw>>

\* --single-transaction: the rows are the transaction's, but of a table redefined
\* since it began mysqldump may get others, or fail.  mongodump has no snapshot.
RowsSeen(t) ==
    CASE engine = "mongodb" -> {db[t].rows}
      [] engine = "mysql" /\ db[t].shape # view[t].shape -> {db[t].rows, view[t].rows}
      [] OTHER -> {view[t].rows}

ToolDumps ==
    /\ phase = "dump"
    /\ \E t \in names \ DOMAIN raw :
          /\ t \in Present(Defined)
          /\ \E r \in RowsSeen(t) :
                raw' = [u \in DOMAIN raw \cup {t} |->
                          IF u = t THEN [shape |-> Defined[t].shape, rows |-> r] ELSE raw[u]]
    /\ UNCHANGED <<application, request, phase, listed, table, shape, view, names>>

\* The tool exits with 0, with an error, or is killed after the timeout.
ToolEnds ==
    /\ \/ phase = "dump" /\ DOMAIN raw = names /\ phase' = "ok"
       \/ phase \in {"tool", "names", "dump"} /\ phase' = "error"
    /\ UNCHANGED <<application, request, copying>>

DumpInit ==
    /\ db \in [Tables -> {Gone, [there |-> TRUE, shape |-> 0, rows |-> 0]}] /\ Present(db) # {}
    /\ moments = {db} /\ writes = 0 /\ altered = FALSE
    /\ engine \in Engines /\ selection \in SUBSET Tables
    /\ phase = "list" /\ listed = {} /\ table \in Tables /\ shape = 0
    /\ view = NoView /\ names = {} /\ raw = NoView

DumpNext ==
    \/ Application \/ List \/ CopyAll \/ Check \/ Define \/ Insert
    \/ FindTool \/ ToolBegins \/ ToolLists \/ ToolDumps \/ ToolEnds

DumpSpec == DumpInit /\ [][DumpNext]_dumpVars

----------------------------------------------------------------------------
(* Properties *)

\* A dump (of any engine but MongoDB) has the rows of one moment of the backup,
\* of all the tables that were wanted and there: never half of a transaction.
\* The definitions are of that moment too, unless one was changed in a gap that
\* is left open: before the first INSERT of a selective SQLite dump, which opens
\* its transaction, and while mysqldump runs, whose rows are then no longer
\* promised either.
OneMoment ==
    phase = "ok" /\ engine # "mongodb" =>
        \E state \in moments :
            /\ ~(engine = "mysql" /\ altered) =>
                  /\ DOMAIN raw = Wanted(state)
                  /\ \A t \in DOMAIN raw : raw[t].rows = state[t].rows
            /\ ~altered => \A t \in DOMAIN raw : raw[t].shape = state[t].shape

\* A successful dump lacks no table that is expected of it: none of a selection,
\* where a missing table is an error, and, unless tables came or went since they
\* were listed, none of those the row names ("used later to verify restores").
WholeSelection ==
    phase = "ok" =>
        /\ engine \in {"sqlite", "mysql"} => selection \subseteq DOMAIN raw
        /\ /\ selection = {} \/ engine \in {"sqlite", "mysql"}
           /\ \A before, after \in moments : Present(before) = Present(after)
           => listed \subseteq DOMAIN raw
=============================================================================
