------------------------ MODULE BackupContentProofs ------------------------
(***************************************************************************)
(* What is in a backup file, and what comes out of it again: theorems      *)
(* about the raw dump of a database in use, for any tables and any         *)
(* transactions; about the layers around it, for any methods, keys and     *)
(* damages; and about the chunks of an encrypted file, for any files, any  *)
(* chunk size and any rearrangement of pieces, of any number of frames.    *)
(***************************************************************************)
EXTENDS Dump, Archive, EncryptedFile, FiniteSetTheorems, SequenceTheorems, TLAPS

----------------------------------------------------------------------------
(* The raw dump *)

States == [Tables -> [there : BOOLEAN, shape : Nat, rows : Nat]]

\* Whether the rows of the dump, and the definitions, are of one moment.
RowsHold == ~(engine = "mysql" /\ altered)
ShapesHold == ~altered

\* What has been copied is what it was in that state.
CopyOf(state) ==
    /\ state \in moments
    /\ RowsHold => /\ DOMAIN raw \subseteq Wanted(state)
                   /\ \A t \in DOMAIN raw : raw[t].rows = state[t].rows
    /\ ShapesHold => \A t \in DOMAIN raw : raw[t].shape = state[t].shape

\* The copy is of the state that the reading transaction saw when it began,
\* which was one of the backup's moments; what must be there is there; and a
\* definition read outside the transaction is still the table's, unless the
\* table has been redefined in the gap.
DumpAgrees ==
    /\ moments \subseteq States /\ db \in moments /\ writes \in Nat /\ altered \in BOOLEAN
    /\ engine \in {"sqlite", "mysql", "postgresql", "mongodb"}
    /\ selection \subseteq Tables /\ table \in Tables
    /\ phase \in {"list", "begin", "define", "insert", "tool", "names", "dump", "ok", "error"}
    /\ phase \in {"list", "begin", "tool"} => raw = NoView /\ view = NoView /\ ~altered
    /\ phase \in {"define", "insert"} =>
          /\ engine = "sqlite" /\ selection # {}
          /\ IF view = NoView THEN raw = NoView ELSE CopyOf(view)
    /\ phase = "define" /\ view = NoView => ~altered
    /\ phase = "insert" => table \in selection /\ (~altered => shape = Source[table].shape)
    /\ phase \in {"tool", "names", "dump"} => engine # "sqlite"
    /\ phase \in {"names", "dump"} /\ engine = "mysql" /\ ~altered =>
          \A t \in Tables : db[t].there = view[t].there /\ db[t].shape = view[t].shape
    /\ phase = "names" => view \in moments /\ raw = NoView
    /\ phase = "dump" =>
          /\ \E state \in moments :
                names = Wanted(state) /\ (engine = "mysql" => selection \subseteq Present(state))
          /\ engine # "mongodb" => CopyOf(view) /\ (RowsHold => names = Wanted(view))
    /\ phase = "ok" =>
          /\ \E state \in moments : /\ DOMAIN raw = Wanted(state)
                                    /\ engine \in {"sqlite", "mysql"} => selection \subseteq Present(state)
          /\ engine # "mongodb" =>
                \E state \in moments : CopyOf(state) /\ (RowsHold => DOMAIN raw = Wanted(state))

\* The row names the selection, or what was there, or nothing.
ListedOnce ==
    phase # "list" =>
        IF selection # {} THEN listed = selection
        ELSE listed = {} \/ \E state \in moments : listed = Present(state)

LEMMA DumpAgreesInit == DumpInit => DumpAgrees /\ ListedOnce
<1> SUFFICES ASSUME DumpInit PROVE DumpAgrees /\ ListedOnce
  OBVIOUS
<1>1. {Gone, [there |-> TRUE, shape |-> 0, rows |-> 0]} \subseteq [there : BOOLEAN, shape : Nat, rows : Nat]
  BY DEF Gone
<1>2. db \in States
  BY <1>1 DEF DumpInit, States
<1>3. engine \in {"sqlite", "mysql", "postgresql", "mongodb"}
  BY DumpAssumption DEF DumpInit
<1> QED
  BY <1>2, <1>3 DEF DumpInit, DumpAgrees, ListedOnce

\* A write adds a moment; only one in a gap can part a definition from its rows.
LEMMA WriteAgrees ==
    ASSUME DumpAgrees, NEW change \in States, Write(change), altered' \in BOOLEAN,
           altered => altered',
           phase = "insert" /\ view = NoView /\ ~altered' => change[table].shape = db[table].shape,
           phase \in {"names", "dump"} /\ engine = "mysql" /\ ~altered' =>
               \A t \in Tables : change[t].there = db[t].there /\ change[t].shape = db[t].shape,
           altered' => altered \/ phase \in {"insert", "names", "dump"}
    PROVE  DumpAgrees'
<1> USE DEF DumpAgrees, request, copying
<1>1. /\ db' = change /\ moments' = moments \cup {change} /\ writes' = writes + 1
      /\ UNCHANGED <<engine, selection, phase, listed, table, shape, view, names, raw>>
      /\ phase \notin {"ok", "error"}
  BY DEF Write
<1>2. \A state : CopyOf(state) => CopyOf(state)'
  BY <1>1 DEF CopyOf, RowsHold, ShapesHold, Wanted, Present
<1>3. \A state : Wanted(state)' = Wanted(state) /\ Present(state)' = Present(state)
  BY <1>1 DEF Wanted, Present
<1>4. phase = "insert" => (~altered' => shape' = Source'[table'].shape)
  BY <1>1 DEF Source
<1>5. phase = "dump" /\ engine # "mongodb" => CopyOf(view)' /\ (RowsHold' => names' = Wanted(view)')
  BY <1>1, <1>2, <1>3 DEF RowsHold
<1> QED
  BY <1>1, <1>2, <1>3, <1>4, <1>5

LEMMA DumpAgreesNext == DumpAgrees /\ [DumpNext]_dumpVars => DumpAgrees'
<1> SUFFICES ASSUME DumpAgrees, [DumpNext]_dumpVars PROVE DumpAgrees'
  OBVIOUS
<1> USE DEF DumpAgrees, application, request, copying
<1>empty. DOMAIN NoView = {}
  BY DEF NoView
<1>db. db \in States
  OBVIOUS
<1>1. CASE WriteRows
  <2>1. PICK ts \in SUBSET Present(db) :
           Write([t \in Tables |-> IF t \in ts THEN [db[t] EXCEPT !.rows = writes + 1] ELSE db[t]])
    BY <1>1 DEF WriteRows
  <2> DEFINE change == [t \in Tables |-> IF t \in ts THEN [db[t] EXCEPT !.rows = writes + 1] ELSE db[t]]
  <2>2. /\ change \in States
        /\ \A t \in Tables : change[t].there = db[t].there /\ change[t].shape = db[t].shape
    <3>1. ASSUME NEW t \in Tables
          PROVE  /\ change[t] \in [there : BOOLEAN, shape : Nat, rows : Nat]
                 /\ change[t].there = db[t].there /\ change[t].shape = db[t].shape
      <4>1. db[t] \in [there : BOOLEAN, shape : Nat, rows : Nat]
        BY <1>db DEF States
      <4>2. change[t] = [db[t] EXCEPT !.rows = writes + 1] \/ change[t] = db[t]
        OBVIOUS
      <4> QED
        BY <4>1, <4>2
    <3> QED
      BY <3>1 DEF States
  <2>3. phase = "insert" /\ view = NoView => change[table].shape = db[table].shape
    BY <2>2
  <2>4. altered' = altered
    BY <1>1 DEF WriteRows
  <2> QED
    BY <2>1, <2>2, <2>3, <2>4, WriteAgrees
<1>2. ASSUME NEW t \in Tables, Redefine(t) PROVE DumpAgrees'
  <2>1. PICK r \in [there : BOOLEAN, shape : Nat, rows : Nat] : Write([db EXCEPT ![t] = r])
    <3>1. CASE Write([db EXCEPT ![t] = [there |-> TRUE, shape |-> writes + 1, rows |-> writes + 1]])
      <4>1. [there |-> TRUE, shape |-> writes + 1, rows |-> writes + 1] \in [there : BOOLEAN, shape : Nat, rows : Nat]
        OBVIOUS
      <4> QED
        BY <3>1, <4>1
    <3>2. CASE Write([db EXCEPT ![t].shape = writes + 1])
      <4>1. db[t] \in [there : BOOLEAN, shape : Nat, rows : Nat]
        BY <1>db DEF States
      <4>2. [db[t] EXCEPT !.shape = writes + 1] \in [there : BOOLEAN, shape : Nat, rows : Nat]
        BY <4>1
      <4> QED
        BY <3>2, <4>2
    <3>3. CASE Write([db EXCEPT ![t] = Gone])
      BY <3>3 DEF Gone
    <3> QED
      BY <1>2, <3>1, <3>2, <3>3 DEF Redefine
  <2> DEFINE change == [db EXCEPT ![t] = r]
  <2>2. change \in States /\ \A u \in Tables : u # t => change[u] = db[u]
    BY <1>db DEF States
  <2>3. altered' = (altered \/ InGap(t))
    BY <1>2 DEF Redefine
  <2>4. phase = "insert" /\ view = NoView /\ ~altered' => change[table].shape = db[table].shape
    BY <2>2, <2>3 DEF InGap
  <2>5. altered' \in BOOLEAN /\ (altered => altered') /\ (altered' => altered \/ phase \in {"insert", "names", "dump"})
    BY <2>3 DEF InGap
  <2>6. phase \in {"names", "dump"} /\ engine = "mysql" => altered'
    BY <2>3 DEF InGap
  <2> QED
    BY <2>1, <2>2, <2>4, <2>5, <2>6, WriteAgrees
<1>3. CASE List
  BY <1>3 DEF List
<1>4. CASE CopyAll
  <2>1. CASE /\ raw' = [t \in Present(db) |-> AsIs(t, db)] /\ phase' = "ok"
             /\ UNCHANGED <<listed, table, shape, view, names>>
    <3>1. UNCHANGED <<db, moments, writes, altered, engine, selection, table, shape>> /\ selection = {} /\ engine = "sqlite"
      BY <1>4, <2>1 DEF CopyAll
    <3>2. DOMAIN raw' = Present(db)
      BY <2>1
    <3>3. CopyOf(db)' /\ DOMAIN raw' = Wanted(db)' /\ selection' \subseteq Present(db)'
      BY <2>1, <3>1, <3>2 DEF CopyOf, Wanted, Present, AsIs
    <3> QED
      BY <2>1, <3>1, <3>3
  <2>2. CASE Fail
    BY <1>4, <2>2 DEF CopyAll, Fail
  <2> QED
    BY <1>4, <2>1, <2>2 DEF CopyAll
<1>5. CASE Check
  BY <1>5 DEF Check, Fail
<1>6. CASE Define
  <2>1. CASE Fail
    BY <1>6, <2>1 DEF Define, Fail
  <2>2. CASE \E t \in ToCopy \ DOMAIN raw : /\ table' = t /\ shape' = Source[t].shape
                                           /\ phase' = "insert" /\ UNCHANGED <<listed, view, names, raw>>
    <3>1. UNCHANGED <<db, moments, writes, altered, engine, selection, view, raw>> /\ phase = "define"
      BY <1>6, <2>2 DEF Define
    <3>2. CopyOf(view) => CopyOf(view)'
      BY <3>1 DEF CopyOf, RowsHold, ShapesHold, Wanted, Present
    <3>3. Source' = Source
      BY <3>1 DEF Source
    <3> QED
      BY <2>2, <3>1, <3>2, <3>3 DEF ToCopy
  <2> QED
    BY <1>6, <2>1, <2>2 DEF Define
<1>7. CASE Insert
  <2>1. CASE Fail
    BY <1>7, <2>1 DEF Insert, Fail
  <2>2. CASE /\ table \in Present(Source) /\ view' = Source
             /\ raw' = [t \in DOMAIN raw \cup {table} |->
                           IF t = table THEN [shape |-> shape, rows |-> Source[t].rows] ELSE raw[t]]
             /\ phase' = IF ToCopy \subseteq DOMAIN raw' THEN "ok" ELSE "define"
             /\ UNCHANGED <<listed, table, shape, names>>
    <3>1. /\ UNCHANGED <<db, moments, writes, altered, engine, selection, table, shape>> /\ phase = "insert"
          /\ engine = "sqlite" /\ selection # {} /\ table \in selection
      BY <1>7, <2>2 DEF Insert
    <3>2. /\ Source \in moments /\ DOMAIN raw \subseteq Wanted(Source)
          /\ \A t \in DOMAIN raw : raw[t].rows = Source[t].rows
          /\ ~altered => \A t \in DOMAIN raw : raw[t].shape = Source[t].shape
      <4>1. CASE view = NoView
        BY <1>empty, <3>1, <4>1 DEF Source
      <4>2. CASE view # NoView
        BY <3>1, <4>2 DEF Source, CopyOf, RowsHold, ShapesHold
      <4> QED
        BY <4>1, <4>2
    <3>3. table \in Wanted(Source) /\ (~altered => shape = Source[table].shape)
      BY <2>2, <3>1 DEF Wanted
    <3>4. DOMAIN raw' = DOMAIN raw \cup {table}
      BY <2>2
    <3>5. \A t \in DOMAIN raw' : /\ raw'[t].rows = Source[t].rows
                                 /\ ~altered => raw'[t].shape = Source[t].shape
      BY <2>2, <3>2, <3>3, <3>4
    <3>6. \A state : Wanted(state)' = Wanted(state) /\ Present(state)' = Present(state)
      BY <3>1 DEF Wanted, Present
    <3>7. CopyOf(view)'
      BY <2>2, <3>1, <3>2, <3>3, <3>4, <3>5, <3>6 DEF CopyOf, ShapesHold
    <3>8. view' # NoView
      <4>1. DOMAIN Source = Tables /\ table \in Tables
        BY <2>2, <3>2 DEF Present, States
      <4> QED
        BY <1>empty, <2>2, <4>1
    <3>9. CASE ToCopy \subseteq DOMAIN raw'
      <4>1. phase' = "ok" /\ selection \subseteq DOMAIN raw'
        BY <2>2, <3>9 DEF ToCopy
      <4>2. DOMAIN raw' = Wanted(Source) /\ selection \subseteq Present(Source)
        BY <3>1, <3>2, <3>3, <3>4, <4>1 DEF Wanted
      <4> QED
        BY <2>2, <3>1, <3>2, <3>6, <3>7, <4>1, <4>2
    <3>10. CASE ~(ToCopy \subseteq DOMAIN raw')
      BY <2>2, <3>1, <3>7, <3>8, <3>10
    <3> QED
      BY <3>9, <3>10
  <2> QED
    BY <1>7, <2>1, <2>2 DEF Insert
<1>8. CASE FindTool
  BY <1>8 DEF FindTool, Fail
<1>9. CASE ToolBegins
  BY <1>9 DEF ToolBegins
<1>10. CASE ToolLists
  <2>1. /\ UNCHANGED <<db, moments, writes, altered, engine, selection, table, shape, view, raw>>
        /\ phase = "names" /\ phase' = "dump" /\ names' = Wanted(Defined)
        /\ engine = "mysql" => selection \subseteq Present(Defined)
    BY <1>10 DEF ToolLists
  <2>2. Defined \in moments
    BY <2>1 DEF Defined
  <2>3. CopyOf(view)'
    BY <1>empty, <2>1 DEF CopyOf
  <2>4. \A state : Wanted(state)' = Wanted(state) /\ Present(state)' = Present(state)
    BY <2>1 DEF Wanted, Present
  <2>5. engine # "mongodb" /\ RowsHold => Wanted(Defined) = Wanted(view)
    <3>1. CASE engine = "postgresql"
      BY <3>1 DEF Defined
    <3>2. CASE engine = "mysql" /\ ~altered
      BY <2>1, <3>2 DEF Defined, Wanted, Present
    <3> QED
      BY <2>1, <3>1, <3>2 DEF RowsHold
  <2> QED
    BY <2>1, <2>2, <2>3, <2>4, <2>5 DEF RowsHold
<1>11. CASE ToolDumps
  <2>1. /\ phase = "dump" /\ UNCHANGED <<db, moments, writes, altered, engine, selection, table, shape, phase, view, names>>
    BY <1>11 DEF ToolDumps
  <2>2. PICK t \in names \ DOMAIN raw : /\ t \in Present(Defined)
           /\ \E r \in RowsSeen(t) :
                raw' = [u \in DOMAIN raw \cup {t} |->
                          IF u = t THEN [shape |-> Defined[t].shape, rows |-> r] ELSE raw[u]]
    BY <1>11 DEF ToolDumps
  <2>3. PICK r \in RowsSeen(t) :
           raw' = [u \in DOMAIN raw \cup {t} |->
                     IF u = t THEN [shape |-> Defined[t].shape, rows |-> r] ELSE raw[u]]
    BY <2>2
  <2>4. DOMAIN raw' = DOMAIN raw \cup {t} /\ raw'[t] = [shape |-> Defined[t].shape, rows |-> r]
        /\ \A u \in DOMAIN raw : raw'[u] = raw[u]
    BY <2>2, <2>3
  <2>5. \A state : Wanted(state)' = Wanted(state) /\ Present(state)' = Present(state)
    BY <2>1 DEF Wanted, Present
  <2>6. ASSUME engine # "mongodb" PROVE CopyOf(view)'
    <3>1. CopyOf(view) /\ (RowsHold => t \in Wanted(view)) /\ t \in Tables
      BY <2>1, <2>2, <2>6 DEF Present
    <3>2. RowsHold => r = view[t].rows
      BY <2>1, <2>3, <2>6, <3>1 DEF RowsSeen, RowsHold
    <3>3. ShapesHold => Defined[t].shape = view[t].shape
      BY <2>1, <2>6, <3>1 DEF ShapesHold, Defined
    <3> QED
      BY <2>1, <2>4, <2>5, <3>1, <3>2, <3>3 DEF CopyOf, RowsHold, ShapesHold
  <2> QED
    BY <2>1, <2>5, <2>6 DEF RowsHold
<1>12. CASE ToolEnds
  <2>1. UNCHANGED <<db, moments, writes, altered, engine, selection, table, shape, view, names, raw>>
    BY <1>12 DEF ToolEnds
  <2>2. CASE phase = "dump" /\ DOMAIN raw = names /\ phase' = "ok"
    <3>1. \A state : /\ Wanted(state)' = Wanted(state) /\ Present(state)' = Present(state)
                     /\ CopyOf(state)' <=> CopyOf(state)
      BY <2>1 DEF CopyOf, RowsHold, ShapesHold, Wanted, Present
    <3>2. PICK state \in moments :
             names = Wanted(state) /\ (engine = "mysql" => selection \subseteq Present(state))
      BY <2>2
    <3>3. engine # "mongodb" => view \in moments /\ CopyOf(view) /\ (RowsHold => names = Wanted(view))
      BY <2>2 DEF CopyOf
    <3>4. engine # "sqlite"
      BY <2>2
    <3> QED
      BY <2>1, <2>2, <3>1, <3>2, <3>3, <3>4 DEF RowsHold
  <2>3. CASE phase' = "error"
    BY <2>1, <2>3
  <2> QED
    BY <1>12, <2>2, <2>3 DEF ToolEnds
<1>13. CASE UNCHANGED dumpVars
  <2>1. \A state : /\ Wanted(state)' = Wanted(state) /\ Present(state)' = Present(state)
                   /\ CopyOf(state)' <=> CopyOf(state)
    BY <1>13 DEF dumpVars, CopyOf, RowsHold, ShapesHold, Wanted, Present
  <2>2. Source' = Source /\ (RowsHold' <=> RowsHold)
    BY <1>13 DEF dumpVars, Source, RowsHold
  <2> QED
    BY <1>13, <2>1, <2>2 DEF dumpVars
<1> QED
  BY <1>1, <1>2, <1>3, <1>4, <1>5, <1>6, <1>7, <1>8, <1>9, <1>10, <1>11, <1>12, <1>13
     DEF DumpNext, Application

LEMMA ListedOnceNext == DumpAgrees /\ ListedOnce /\ [DumpNext]_dumpVars => ListedOnce'
<1> SUFFICES ASSUME DumpAgrees, ListedOnce, [DumpNext]_dumpVars PROVE ListedOnce'
  OBVIOUS
<1> USE DEF ListedOnce, application, request, copying, Present
<1>1. CASE List
  BY <1>1 DEF List, DumpAgrees
<1>2. ASSUME NEW change, Write(change) PROVE ListedOnce'
  BY <1>2 DEF Write
<1>3. CASE Application
  BY <1>2, <1>3 DEF Application, WriteRows, Redefine
<1>4. CASE UNCHANGED <<moments, selection, listed>> /\ phase # "list"
  BY <1>4
<1>5. CASE UNCHANGED dumpVars
  BY <1>5 DEF dumpVars
<1> QED
  BY <1>1, <1>3, <1>4, <1>5 DEF DumpNext, CopyAll, Check, Define, Insert, FindTool,
     ToolBegins, ToolLists, ToolDumps, ToolEnds, Fail

LEMMA DumpAlwaysAgrees == DumpSpec => []DumpAgrees /\ []ListedOnce
BY DumpAgreesInit, DumpAgreesNext, ListedOnceNext, PTL DEF DumpSpec

\* For any tables and anything the applications do to them, the rows of a dump
\* that succeeded are those of one moment of the backup (all but mongodump), and
\* so are the definitions, but for tables redefined in one of the two gaps.
THEOREM DumpIsOfOneMoment == DumpSpec => []OneMoment
<1>1. DumpAgrees => OneMoment
  BY DEF DumpAgrees, CopyOf, RowsHold, ShapesHold, OneMoment
<1> QED
  BY <1>1, DumpAlwaysAgrees, PTL

\* It lacks no table that is expected of it: none of a selection, and none that
\* the row names unless tables came or went since they were listed.
THEOREM DumpHasItsSelection == DumpSpec => []WholeSelection
<1>1. ASSUME DumpAgrees, ListedOnce PROVE WholeSelection
  <2> SUFFICES ASSUME phase = "ok" PROVE WholeSelection
    BY DEF WholeSelection
  <2>1. PICK state \in moments :
           /\ DOMAIN raw = Wanted(state)
           /\ engine \in {"sqlite", "mysql"} => selection \subseteq Present(state)
    BY <1>1 DEF DumpAgrees
  <2>2. engine \in {"sqlite", "mysql"} => selection \subseteq DOMAIN raw
    BY <2>1 DEF Wanted
  <2>3. CASE selection # {}
    BY <1>1, <2>2, <2>3 DEF ListedOnce, WholeSelection
  <2>4. CASE selection = {}
    BY <1>1, <2>1, <2>2, <2>4 DEF ListedOnce, WholeSelection, Wanted
  <2> QED
    BY <2>3, <2>4
<1> QED
  BY <1>1, DumpAlwaysAgrees, PTL

----------------------------------------------------------------------------
(* The layers of a stored file *)

DamageValues == Damages \cup {"none"}

\* The files that execute_backup has in hand, step by step.
Dumps == [kind : {"dump"}, damage : DamageValues]
Zipped == [kind : {method}, damage : DamageValues, key : {"no key"}, inner : Dumps]
Cores == IF method = "none" THEN Dumps ELSE Zipped
Sealed == [kind : {"encrypted"}, damage : DamageValues, key : Keys, inner : Cores]
StoredFiles == IF encryption THEN Sealed ELSE Cores

Shapes ==
    /\ method \in {"none", "gzip", "zip"} /\ encryption \in BOOLEAN /\ key \in Keys
    /\ stage \in {"dumped", "compressed", "encrypted", "stored"}
    /\ stage = "dumped" => file \in Dumps
    /\ stage = "compressed" => file \in Cores
    /\ stage \in {"encrypted", "stored"} => file \in StoredFiles

LEMMA ShapesInit == Init => Shapes
BY ArchiveAssumption DEF Init, Shapes, Dumps, Dump, DamageValues

\* A file with other damage is a file of the same shape.
LEMMA RotShape ==
    ASSUME NEW d \in Damages, NEW S, S \in {Dumps, Zipped, Sealed}, NEW f \in S
    PROVE  [f EXCEPT !.damage = d] \in S /\ [f EXCEPT !.damage = d].damage # "none"
<1>1. d \in DamageValues /\ d # "none"
  BY DEF DamageValues, Damages
<1>2. CASE S = Dumps
  BY <1>1, <1>2 DEF Dumps
<1>3. CASE S = Zipped
  BY <1>1, <1>3 DEF Zipped
<1>4. CASE S = Sealed
  BY <1>1, <1>4 DEF Sealed
<1> QED BY <1>2, <1>3, <1>4

LEMMA ShapesNext == Shapes /\ [Next]_vars => Shapes'
<1> SUFFICES ASSUME Shapes, [Next]_vars PROVE Shapes'
  OBVIOUS
<1>1. CASE CompressStep
  <2>1. file \in Dumps /\ UNCHANGED <<method, encryption, key>> /\ stage' = "compressed"
    BY <1>1 DEF CompressStep, Step, Shapes, options
  <2>2. file' \in Cores
    BY <1>1, <2>1 DEF CompressStep, Step, Compress, Wrap, Cores, Zipped, DamageValues
  <2> QED BY <2>1, <2>2 DEF Shapes, Cores, Zipped
<1>2. CASE EncryptStep
  <2>1. file \in Cores /\ UNCHANGED <<method, encryption, key>> /\ stage' = "encrypted"
    BY <1>2 DEF EncryptStep, Step, Shapes, options
  <2>2. file' \in StoredFiles
    BY <1>2, <2>1 DEF EncryptStep, Step, Encrypt, Wrap, StoredFiles, Sealed, DamageValues, Shapes
  <2> QED BY <2>1, <2>2 DEF Shapes, StoredFiles, Sealed, Cores, Zipped
<1>3. CASE HashStep
  BY <1>3 DEF HashStep, Step, Shapes, options, StoredFiles, Sealed, Cores, Zipped
<1>4. CASE Rot
  <2>1. PICK d \in Damages : file' = [file EXCEPT !.damage = d]
    BY <1>4 DEF Rot
  <2>2. \A S \in {Dumps, Zipped, Sealed} : file \in S => file' \in S
    BY <2>1, RotShape
  <2>3. UNCHANGED <<method, encryption, key, stage>>
    BY <1>4 DEF Rot, options
  <2>4. (file \in Cores => file' \in Cores) /\ (file \in StoredFiles => file' \in StoredFiles)
    BY <2>2 DEF Cores, StoredFiles
  <2> QED BY <2>2, <2>3, <2>4 DEF Shapes, StoredFiles, Sealed, Cores, Zipped
<1>5. CASE ReplaceKey
  BY <1>5 DEF ReplaceKey, Shapes, options, StoredFiles, Sealed, Cores, Zipped
<1>6. CASE UNCHANGED <<options, key, stage, file>>
  BY <1>6 DEF Shapes, options, StoredFiles, Sealed, Cores, Zipped
<1> QED
  BY <1>1, <1>2, <1>3, <1>4, <1>5, <1>6 DEF Next, Verify, RestoreCheck, RestoreUnpack, vars, options

----------------------------------------------------------------------------
(* What a restore gets to *)

\* Unpacking ends in the dump only if the outermost layer is sound.
LEMMA UnpackedDump ==
    ASSUME Shapes, stage = "stored", Unpacked.kind = "dump", encryption \/ method # "none"
    PROVE  file.damage = "none" /\ Unpacked = Payload(file)
<1>1. CASE encryption
  <2>1. file \in Sealed
    BY <1>1 DEF Shapes, StoredFiles
  <2>2. file.key = key /\ file.damage = "none"
    BY <1>1, <2>1 DEF Unpacked, Decrypted, Decrypt, Raised, Sealed
  <2>3. Decrypted = file.inner /\ file.inner \in Cores
    BY <1>1, <2>1, <2>2 DEF Decrypted, Decrypt, Sealed
  <2>4. CASE method = "none"
    <3>1. Unpacked = file.inner /\ file.inner \in Dumps
      BY <2>3, <2>4 DEF Unpacked, Cores
    <3> QED BY <2>1, <2>2, <3>1 DEF Payload, IsLayer, Dumps, Sealed
  <2>5. CASE method # "none"
    <3>1. file.inner \in Zipped
      BY <2>3, <2>5 DEF Cores
    <3>2. Unpacked = file.inner.inner
      BY <2>3, <2>5, <3>1 DEF Unpacked, Decompress, Raised, Zipped, Shapes
    <3> QED BY <2>1, <2>2, <3>1, <3>2 DEF Payload, IsLayer, Zipped, Sealed
  <2> QED BY <2>4, <2>5
<1>2. CASE ~encryption /\ method # "none"
  <2>1. file \in Zipped
    BY <1>2 DEF Shapes, StoredFiles, Cores
  <2>2. Unpacked = Decompress(file)
    BY <1>2, <2>1 DEF Unpacked, Decrypted, Zipped, Shapes
  <2>3. file.damage = "none" /\ Unpacked = file.inner /\ file.inner \in Dumps
    BY <2>1, <2>2 DEF Decompress, Raised, Zipped, DamageValues, Damages
  <2> QED BY <2>1, <2>3 DEF Payload, IsLayer, Zipped, Dumps
<1> QED BY <1>1, <1>2

\* The stored file is the one that was hashed, or damaged since.
HashedOrDamaged ==
    /\ stage = "stored" => file = checksum \/ file.damage # "none"
    /\ stage # "stored" => restored.kind # "dump" /\ ~restoring
    /\ LayersProtectTheGap

LEMMA HashedNext == Shapes /\ HashedOrDamaged /\ [Next]_vars => HashedOrDamaged'
<1> SUFFICES ASSUME Shapes, HashedOrDamaged, [Next]_vars PROVE HashedOrDamaged'
  OBVIOUS
<1> USE DEF HashedOrDamaged, LayersProtectTheGap, options
<1>1. CASE CompressStep \/ EncryptStep
  BY <1>1 DEF CompressStep, EncryptStep, Step
<1>2. CASE HashStep
  BY <1>2 DEF HashStep, Step, Digest
<1>3. CASE Rot
  <2>1. PICK d \in Damages : file' = [file EXCEPT !.damage = d]
    BY <1>3 DEF Rot
  <2>2. stage = "stored" => file'.damage # "none"
    BY <2>1, RotShape DEF Shapes, StoredFiles, Cores
  <2> QED BY <1>3, <2>2 DEF Rot
<1>4. CASE RestoreUnpack
  <2>1. stage = "stored" /\ restored' = Unpacked /\ UNCHANGED <<options, stage, file, checksum>>
    BY <1>4 DEF RestoreUnpack
  <2>2. Unpacked.kind = "dump" /\ (encryption \/ method # "none") => Unpacked = Payload(checksum)
    BY <2>1, UnpackedDump
  <2>3. Payload(checksum)' = Payload(checksum)
    BY <2>1 DEF Payload, IsLayer
  <2>4. LayersProtectTheGap'
    BY <2>1, <2>2, <2>3
  <2> QED BY <2>1, <2>4
<1>5. CASE RestoreCheck
  <2>1. restored' = restored \/ restored'.kind = "RestoreError"
    BY <1>5 DEF RestoreCheck, Raised
  <2> QED BY <1>5, <2>1 DEF RestoreCheck, Payload, IsLayer
<1>6. CASE Verify \/ ReplaceKey
  BY <1>6 DEF Verify, ReplaceKey
<1>7. CASE UNCHANGED vars
  BY <1>7 DEF vars
<1> QED
  BY <1>1, <1>2, <1>3, <1>4, <1>5, <1>6, <1>7 DEF Next

\* A restore of a compressed or encrypted backup gives the dump that was hashed
\* or fails, whatever happens to the bytes: Spec => []LayersProtectTheGap.
THEOREM OnlyTheHashedDump == Spec => []LayersProtectTheGap
<1>1. Init => Shapes /\ HashedOrDamaged
  BY ShapesInit DEF Init, HashedOrDamaged, LayersProtectTheGap, Raised
<1>2. HashedOrDamaged => LayersProtectTheGap
  BY DEF HashedOrDamaged
<1> QED
  BY <1>1, <1>2, ShapesNext, HashedNext, PTL DEF Spec

----------------------------------------------------------------------------
(* What a deep verdict is worth *)

\* What the deep check of f under k would read: DeepCheck is that of the present
\* file and key.
UnsealedAt(f, k) ==
    IF ~encryption THEN f
    ELSE IF f.kind = "encrypted" /\ f.key = k /\ f.damage = "none"
         THEN f.inner ELSE Raised("EncryptionError")
ReadAt(f, k) ==
    IF UnsealedAt(f, k).kind # "EncryptionError" /\ method # "none"
    THEN Decompress(UnsealedAt(f, k)) ELSE UnsealedAt(f, k)
Errors == {"RestoreError", "EncryptionError", "zlib.error"}

\* A verdict of "valid" is about the hashed file, and remembers a check that a
\* later change of the file or the key does not make untrue.
VerdictStands ==
    verdict.status = "valid" =>
        /\ stage = "stored" /\ verdict.file = checksum
        /\ ReadAt(verdict.file, verdict.key).kind \notin Errors

LEMMA DeepIsReadAt == DeepCheck = ReadAt(file, key) /\ Unpacked = ReadAt(file, key)
BY DEF DeepCheck, Unpacked, ReadAt, UnsealedAt, Decrypted, Decrypt, TestsCompression

\* What can be read of a stored file is the dump.
LEMMA ReadIsDump ==
    ASSUME Shapes, stage = "stored", Unpacked.kind \notin Errors
    PROVE  Unpacked.kind = "dump"
<1>1. Decrypted.kind # "EncryptionError" /\ Decrypted \in Cores
  <2>1. CASE encryption
    <3>1. file \in Sealed
      BY <2>1 DEF Shapes, StoredFiles
    <3>2. CASE file.key = key /\ file.damage = "none"
      <4>1. Decrypted = file.inner /\ file.inner \in Cores
        BY <2>1, <3>1, <3>2 DEF Decrypted, Decrypt, Sealed
      <4>2. file.inner.kind \in {"dump", method}
        BY <4>1 DEF Cores, Dumps, Zipped
      <4> QED BY <4>1, <4>2 DEF Shapes
    <3>3. CASE ~(file.key = key /\ file.damage = "none")
      <4>1. Decrypted = Raised("EncryptionError")
        BY <2>1, <3>3 DEF Decrypted, Decrypt
      <4> QED BY <4>1 DEF Unpacked, Raised, Errors
    <3> QED BY <3>2, <3>3
  <2>2. CASE ~encryption
    <3>1. Decrypted = file /\ file \in Cores
      BY <2>2 DEF Decrypted, Shapes, StoredFiles
    <3> QED BY <3>1 DEF Cores, Dumps, Zipped, Shapes
  <2> QED BY <2>1, <2>2
<1>2. CASE method = "none"
  BY <1>1, <1>2 DEF Unpacked, Cores, Dumps
<1>3. CASE method # "none"
  <2>1. Unpacked = Decompress(Decrypted) /\ Decrypted \in Zipped
    BY <1>1, <1>3 DEF Unpacked, Cores
  <2> QED BY <2>1 DEF Decompress, Raised, Errors, Zipped, Dumps
<1> QED BY <1>2, <1>3

LEMMA VerdictNext == Shapes /\ VerdictStands /\ [Next]_vars => VerdictStands'
<1> SUFFICES ASSUME Shapes, VerdictStands, [Next]_vars PROVE VerdictStands'
  OBVIOUS
<1>1. CASE Verify
  <2>1. /\ verdict'.status = DeepStatus /\ verdict'.file = file /\ verdict'.key = key
        /\ stage = "stored" /\ UNCHANGED <<method, encryption, stage, checksum>>
    BY <1>1 DEF Verify, options
  <2>2. DeepStatus = "valid" => file = checksum /\ ReadAt(file, key).kind \notin Errors
    BY DeepIsReadAt DEF DeepStatus, DigestsEqual, Digest, Errors
  <2>3. ReadAt(verdict.file, verdict.key)' = ReadAt(file, key)
    BY <2>1 DEF ReadAt, UnsealedAt, Decompress
  <2> QED BY <2>1, <2>2, <2>3 DEF VerdictStands
<1>2. CASE UNCHANGED <<options, verdict>> /\ (stage = "stored" => UNCHANGED <<stage, checksum>>)
  BY <1>2 DEF options, VerdictStands, ReadAt, UnsealedAt, Decompress
<1> QED
  BY <1>1, <1>2 DEF Next, CompressStep, EncryptStep, HashStep, Step, RestoreCheck, RestoreUnpack,
     Rot, ReplaceKey, vars, options

\* As long as file and key are those of a deep "valid", a restore gets to the
\* dump: Spec => []DeepValidIsRestorable.
THEOREM DeepValidRestores == Spec => []DeepValidIsRestorable
<1>1. Init => Shapes /\ VerdictStands
  BY ShapesInit DEF Init, VerdictStands
<1>2. Shapes /\ VerdictStands => DeepValidIsRestorable
  BY DeepIsReadAt, ReadIsDump DEF VerdictStands, DeepValidIsRestorable, DigestsEqual, Digest
<1> QED
  BY <1>1, <1>2, ShapesNext, VerdictNext, PTL DEF Spec

----------------------------------------------------------------------------
(* The chunks of an encrypted file *)

AllFrames == {Frame(f, i) : f \in Files, i \in Nat}
Chunks == {Read(f, i) : f \in Files, i \in Nat}

\* Only what encrypt_file made is ever on disk.
WrittenAreFrames == written \in [Files -> Seq(AllFrames)] /\ chunk \in [Files -> Nat]

StoredAreFrames ==
    stored # None => /\ stored.header \in Files \cup {Damaged}
                     /\ stored.frames \in Seq(AllFrames \cup {Damaged})

\* What has been decrypted so far is the beginning of the file of the header.
Prefix ==
    /\ counter \in Nat /\ out \in Seq(Chunks) /\ Len(out) = counter
    /\ \A i \in 1 .. counter : out[i] = Read(stored.header, i - 1)

\* The last frame opened was marked as the last one.
OkAtTheEnd ==
    result = "ok" => stored.header \in Files /\ Read(stored.header, counter) = <<>>

\* stored is None for as long as nothing is decrypted.
NothingYet == stored = None => counter = 0 /\ result = "none"

FileInv == WrittenAreFrames /\ StoredAreFrames /\ Prefix /\ OkAtTheEnd /\ NothingYet

\* A frame that opens is the one that encrypt_file made of this chunk.
LEMMA OpenedFrame ==
    ASSUME NEW frame \in AllFrames \cup {Damaged}, NEW last \in BOOLEAN, Opens(frame, last)
    PROVE  /\ stored.header \in Files
           /\ frame.data = Read(stored.header, counter)
           /\ frame.data \in Chunks
           /\ last => Read(stored.header, counter + 1) = <<>>
<1>1. PICK f \in Files, i \in Nat : frame = Frame(f, i)
  BY DEF Opens, AllFrames
<1>2. f = stored.header /\ i = counter /\ (Read(f, i + 1) = <<>>) = last
  BY <1>1 DEF Opens, Frame, Final
<1> QED
  BY <1>1, <1>2 DEF Frame, Chunks

LEMMA FileInvInit == FileInit => FileInv
BY DEF FileInit, FileInv, WrittenAreFrames, StoredAreFrames, Prefix, OkAtTheEnd, NothingYet

LEMMA FileInvNext == FileInv /\ [FileNext]_fileVars => FileInv'
<1> SUFFICES ASSUME FileInv, [FileNext]_fileVars PROVE FileInv'
  OBVIOUS
<1> USE DEF FileInv
<1>1. ASSUME NEW f \in Files, EncryptChunk(f) PROVE FileInv'
  <2>1. chunk[f] \in Nat /\ Frame(f, chunk[f]) \in AllFrames
    BY DEF WrittenAreFrames, AllFrames
  <2>2. WrittenAreFrames'
    BY <1>1, <2>1 DEF EncryptChunk, WrittenAreFrames
  <2> QED
    BY <1>1, <2>2 DEF EncryptChunk, decrypting, StoredAreFrames, Prefix, OkAtTheEnd, NothingYet
<1>2. CASE Store
  <2>1. PICK header \in Files \cup {Damaged}, n \in 0 .. MaxFrames, cut \in BOOLEAN, right \in BOOLEAN :
          \E frames \in [1 .. n -> Pieces] :
              stored' = [header |-> header, frames |-> frames, cut |-> cut, right |-> right]
    BY <1>2 DEF Store
  <2>2. PICK frames \in [1 .. n -> Pieces] :
            stored' = [header |-> header, frames |-> frames, cut |-> cut, right |-> right]
    BY <2>1
  <2>3. Pieces \subseteq AllFrames \cup {Damaged}
    <3>1. \A f \in Files : \A i \in DOMAIN written[f] : written[f][i] \in AllFrames
      BY DEF WrittenAreFrames
    <3> QED BY <3>1 DEF Pieces
  <2>4. n \in Nat
    BY EncryptedFileAssumption
  <2>5. frames \in Seq(AllFrames \cup {Damaged})
    BY <2>3, <2>4
  <2>6. StoredAreFrames'
    BY <2>2, <2>5 DEF StoredAreFrames
  <2>7. counter = 0 /\ result = "none"
    BY <1>2 DEF Store, NothingYet
  <2> QED
    BY <1>2, <2>6, <2>7 DEF Store, WrittenAreFrames, Prefix, OkAtTheEnd, NothingYet
<1>3. CASE DecryptFrame
  <2> DEFINE last == counter + 1 = Len(Frames) /\ ~stored.cut
             frame == Frames[counter + 1]
  <2>1. stored # None /\ result = "none" /\ UNCHANGED <<written, chunk, stored>>
    BY <1>3 DEF DecryptFrame
  <2>2. CASE /\ counter < Len(Frames) /\ Opens(frame, last)
             /\ out' = Append(out, frame.data) /\ counter' = counter + 1
             /\ result' = IF last THEN "ok" ELSE "none"
    <3>1. frame \in AllFrames \cup {Damaged}
      BY <2>1, <2>2 DEF StoredAreFrames, Prefix, Frames
    <3>2. /\ stored.header \in Files
          /\ frame.data = Read(stored.header, counter)
          /\ frame.data \in Chunks
          /\ last => Read(stored.header, counter + 1) = <<>>
      BY <2>2, <3>1, OpenedFrame
    <3>3. counter' \in Nat /\ out' \in Seq(Chunks) /\ Len(out') = counter'
      BY <2>2, <3>2 DEF Prefix
    <3>4. ASSUME NEW i \in 1 .. counter' PROVE out'[i] = Read(stored.header, i - 1)
      <4>1. CASE i \in 1 .. counter
        BY <2>2, <4>1, <3>2 DEF Prefix
      <4>2. CASE i = counter + 1
        BY <2>2, <4>2, <3>2 DEF Prefix
      <4> QED BY <2>2, <4>1, <4>2 DEF Prefix
    <3>5. Prefix'
      BY <2>1, <3>3, <3>4 DEF Prefix, Read
    <3>6. OkAtTheEnd'
      BY <2>1, <2>2, <3>2 DEF OkAtTheEnd, Read
    <3> QED
      BY <2>1, <3>5, <3>6 DEF WrittenAreFrames, StoredAreFrames, NothingYet
  <2>3. CASE result' = "error" /\ UNCHANGED <<counter, out>>
    BY <2>1, <2>3 DEF WrittenAreFrames, StoredAreFrames, Prefix, OkAtTheEnd, NothingYet, Read
  <2> QED
    BY <1>3, <2>2, <2>3 DEF DecryptFrame
<1>4. CASE UNCHANGED fileVars
  BY <1>4 DEF fileVars, WrittenAreFrames, StoredAreFrames, Prefix, OkAtTheEnd, NothingYet, Read
<1> QED
  BY <1>1, <1>2, <1>3, <1>4 DEF FileNext

\* Decryption that succeeds has given every chunk of the file whose header the
\* stored file carries, in order and to the end: FileSpec => []WholeFileOrError.
THEOREM WholeFile == FileSpec => []WholeFileOrError
<1>1. FileInv => WholeFileOrError
  BY DEF FileInv, Prefix, OkAtTheEnd, WholeFileOrError
<1> QED
  BY <1>1, FileInvInit, FileInvNext, PTL DEF FileSpec

\* The chunks of f in their order; none but the first may be empty.
WrittenInOrder ==
    \A f \in Files :
        /\ Len(written[f]) = chunk[f]
        /\ \A i \in 1 .. chunk[f] : written[f][i] = Frame(f, i - 1)
        /\ \A i \in 1 .. chunk[f] - 1 : Read(f, i) # <<>>

\* The file as it was written, and the right passphrase.
WholeCopy(f) == [header |-> f, frames |-> written[f], cut |-> FALSE, right |-> TRUE]

\* A whole copy opens to its end.
CopiesOpen ==
    \A f \in Files :
        stored = WholeCopy(f) =>
            /\ Complete(f) /\ result # "error"
            /\ result = "none" => counter < Len(written[f])

\* With FileInv, inductive.
CopyInv == WrittenInOrder /\ CopiesOpen

\* Chunks have at least a byte, so there are no more of them than bytes.
LEMMA ChunkNumbers ==
    ASSUME NEW f \in Files, NEW i \in Nat
    PROVE  /\ Plain[f] \in Seq(Nat) /\ Len(Plain[f]) \in Nat
           /\ i * ChunkSize \in Nat /\ (i + 1) * ChunkSize = i * ChunkSize + ChunkSize
           /\ ChunkSize \in Nat /\ ChunkSize > 0
           /\ Read(f, i) = <<>> <=> Len(Plain[f]) <= i * ChunkSize
           /\ Read(f, i) # <<>> => i <= Len(Plain[f])
<1> DEFINE L == Len(Plain[f])  m == i * ChunkSize
<1>1. Plain[f] \in Seq(Nat) /\ L \in Nat /\ ChunkSize \in Nat /\ ChunkSize > 0
  BY EncryptedFileAssumption
<1>2. m \in Nat /\ (i + 1) * ChunkSize = m + ChunkSize /\ i <= m
  BY <1>1
<1>3. Read(f, i) = SubSeq(Plain[f], m + 1, Least(m + ChunkSize, L))
  BY <1>2 DEF Read
<1> HIDE DEF m
<1>4. Read(f, i) = <<>> <=> L <= m
  <2>1. CASE L <= m
    <3>1. Least(m + ChunkSize, L) = L
      BY <1>1, <1>2, <2>1 DEF Least
    <3>2. m + 1 > L
      BY <1>1, <1>2, <2>1
    <3> QED BY <1>1, <1>2, <1>3, <2>1, <3>1, <3>2
  <2>2. CASE L > m
    <3> DEFINE e == Least(m + ChunkSize, L)
    <3>1. e \in Nat /\ m + 1 <= e /\ e <= L
      BY <1>1, <1>2, <2>2 DEF Least
    <3> HIDE DEF e
    <3>2. Len(SubSeq(Plain[f], m + 1, e)) = e - m
      BY <1>1, <1>2, <3>1
    <3>3. Len(Read(f, i)) > 0
      BY <1>2, <1>3, <3>1, <3>2 DEF e
    <3> QED BY <1>1, <1>2, <2>2, <3>3
  <2> QED BY <1>1, <1>2, <2>1, <2>2
<1>5. Read(f, i) # <<>> => i <= L
  BY <1>1, <1>2, <1>4
<1> QED BY <1>1, <1>2, <1>4, <1>5 DEF m

\* It holds at first, and each step keeps it.
LEMMA CopyInvInit == FileInit => CopyInv
<1> SUFFICES ASSUME FileInit PROVE CopyInv
  OBVIOUS
<1>1. \A f \in Files : written[f] = <<>> /\ chunk[f] = 0
  BY DEF FileInit
<1>2. WrittenInOrder
  <2>1. Len(<<>>) = 0 /\ 1 .. 0 = {} /\ 1 .. 0 - 1 = {}
    OBVIOUS
  <2> QED BY <1>1, <2>1 DEF WrittenInOrder
<1>3. \A f \in Files : stored # WholeCopy(f)
  BY EncryptedFileAssumption DEF FileInit, WholeCopy, None
<1> QED BY <1>2, <1>3 DEF CopyInv, CopiesOpen

LEMMA CopyInvNext == FileInv /\ CopyInv /\ [FileNext]_fileVars => CopyInv'
<1> SUFFICES ASSUME FileInv, CopyInv, [FileNext]_fileVars PROVE CopyInv'
  OBVIOUS
<1>0. /\ written \in [Files -> Seq(AllFrames)] /\ chunk \in [Files -> Nat]
      /\ counter \in Nat /\ (stored = None => counter = 0 /\ result = "none")
  BY DEF FileInv, WrittenAreFrames, Prefix, NothingYet
<1>1. ASSUME NEW f \in Files, EncryptChunk(f) PROVE CopyInv'
  <2>1. /\ written' = [written EXCEPT ![f] = Append(written[f], Frame(f, chunk[f]))]
        /\ chunk' = [chunk EXCEPT ![f] = chunk[f] + 1]
        /\ chunk[f] = 0 \/ Read(f, chunk[f]) # <<>>
        /\ stored' = None
    BY <1>1 DEF EncryptChunk, decrypting
  <2>2. ASSUME NEW g \in Files
        PROVE  /\ Len(written'[g]) = chunk'[g]
               /\ \A i \in 1 .. chunk'[g] : written'[g][i] = Frame(g, i - 1)
               /\ \A i \in 1 .. chunk'[g] - 1 : Read(g, i) # <<>>
    <3> DEFINE n == chunk[g]  w == written[g]
    <3>1. /\ n \in Nat /\ w \in Seq(AllFrames) /\ Len(w) = n
          /\ \A i \in 1 .. n : w[i] = Frame(g, i - 1)
          /\ \A i \in 1 .. n - 1 : Read(g, i) # <<>>
      BY <1>0 DEF CopyInv, WrittenInOrder
    <3>2. CASE g = f
      <4>1. written'[g] = Append(w, Frame(g, n)) /\ chunk'[g] = n + 1
        BY <1>0, <2>1, <3>2
      <4>2. n = 0 \/ Read(g, n) # <<>>
        BY <2>1, <3>2
      <4> HIDE DEF n, w
      <4>3. Frame(g, n) \in AllFrames
        BY <3>1 DEF AllFrames
      <4>4. Len(written'[g]) = n + 1
        BY <3>1, <4>1, <4>3
      <4>5. \A i \in 1 .. n + 1 : Append(w, Frame(g, n))[i] = Frame(g, i - 1)
        <5> SUFFICES ASSUME NEW i \in 1 .. n + 1 PROVE Append(w, Frame(g, n))[i] = Frame(g, i - 1)
          OBVIOUS
        <5>1. CASE i = n + 1
          <6>1. i - 1 = n
            BY <3>1, <5>1
          <6> QED BY <3>1, <4>3, <5>1, <6>1
        <5>2. CASE i # n + 1
          <6>1. i \in 1 .. n
            BY <3>1, <5>2
          <6> QED BY <3>1, <4>3, <6>1
        <5> QED BY <5>1, <5>2
      <4>6. \A i \in 1 .. n : Read(g, i) # <<>>
        BY <3>1, <4>2
      <4>7. (n + 1) - 1 = n
        BY <3>1
      <4> QED BY <4>1, <4>4, <4>5, <4>6, <4>7
    <3>3. CASE g # f
      <4>1. written'[g] = w /\ chunk'[g] = n
        BY <1>0, <2>1, <3>3
      <4> QED BY <3>1, <4>1
    <3> QED BY <3>2, <3>3
  <2>3. WrittenInOrder'
    BY <2>2 DEF WrittenInOrder, Read, Frame, Final
  <2>4. \A g \in Files : stored' # WholeCopy(g)'
    BY <2>1, EncryptedFileAssumption DEF WholeCopy, None
  <2> QED BY <2>3, <2>4 DEF CopyInv, CopiesOpen
<1>2. ASSUME UNCHANGED <<written, chunk>>
      PROVE  WrittenInOrder' /\ \A f \in Files : WholeCopy(f)' = WholeCopy(f)
  <2>1. WrittenInOrder'
    BY <1>2 DEF CopyInv, WrittenInOrder, Read, Frame, Final
  <2> QED BY <1>2, <2>1 DEF WholeCopy
<1>3. CASE Store
  <2>1. UNCHANGED <<written, chunk, counter, result>> /\ stored = None /\ \A f \in Files : Complete(f)
    BY <1>3 DEF Store
  <2>2. counter = 0 /\ result = "none"
    BY <1>0, <2>1
  <2>3. \A f \in Files : Len(written[f]) = chunk[f] /\ chunk[f] > 0
    BY <2>1 DEF CopyInv, WrittenInOrder, Complete
  <2>4. \A f \in Files : Complete(f)'
    BY <2>1 DEF Complete
  <2> QED BY <1>2, <2>1, <2>2, <2>3, <2>4 DEF CopyInv, CopiesOpen
<1>4. CASE DecryptFrame
  <2>1. UNCHANGED <<written, chunk, stored>> /\ result = "none"
    BY <1>4 DEF DecryptFrame
  <2>2. ASSUME NEW f \in Files, stored = WholeCopy(f)
        PROVE  Complete(f)' /\ result' # "error" /\ (result' = "none" => counter' < Len(written'[f]))
    <3>1. /\ Complete(f) /\ counter < Len(written[f]) /\ Len(written[f]) = chunk[f] /\ chunk[f] \in Nat
          /\ \A i \in 1 .. chunk[f] : written[f][i] = Frame(f, i - 1)
          /\ \A i \in 1 .. chunk[f] - 1 : Read(f, i) # <<>>
      BY <1>0, <2>1, <2>2 DEF CopyInv, CopiesOpen, WrittenInOrder
    <3>2. /\ Frames = written[f] /\ stored.header = f /\ stored.right /\ ~stored.cut /\ f # Damaged
      BY <2>2, EncryptedFileAssumption DEF WholeCopy, Frames
    <3> DEFINE last == counter + 1 = Len(Frames) /\ ~stored.cut
    <3>3. Frames[counter + 1] = Frame(f, counter)
      <4>1. counter + 1 \in 1 .. chunk[f] /\ (counter + 1) - 1 = counter
        BY <1>0, <3>1
      <4> QED BY <3>1, <3>2, <4>1
    <3>4. Frame(f, counter) # Damaged
      <4>1. counter = 0 \/ Read(f, counter) # <<>>
        BY <1>0, <3>1
      <4>2. Len(Plain[f]) \in Nat /\ (Read(f, counter) # <<>> => counter <= Len(Plain[f]))
        BY <1>0, ChunkNumbers
      <4>3. counter \in 0 .. Len(Plain[f])
        BY <1>0, <4>1, <4>2
      <4> QED BY <4>3, DamageAssumption
    <3>5. last = Final(f, counter)
      <4>1. CASE counter + 1 = chunk[f]
        BY <3>1, <3>2, <4>1 DEF Final, Complete
      <4>2. CASE counter + 1 # chunk[f]
        <5>1. counter + 1 \in 1 .. chunk[f] - 1
          BY <1>0, <3>1, <4>2
        <5> QED BY <3>1, <3>2, <4>2, <5>1 DEF Final
      <4> QED BY <4>1, <4>2
    <3>6. Opens(Frames[counter + 1], last)
      <4> HIDE DEF last
      <4> QED BY <3>2, <3>3, <3>4, <3>5 DEF Opens, Frame
    <3>7. /\ stored.header # Damaged /\ counter < Len(Frames)
          /\ counter' = counter + 1 /\ result' = IF last THEN "ok" ELSE "none"
      BY <1>4, <3>1, <3>2, <3>6 DEF DecryptFrame
    <3>8. result' = "none" => counter' < Len(written'[f])
      BY <1>0, <2>1, <3>1, <3>2, <3>7
    <3>9. Complete(f)' /\ result' # "error"
      BY <2>1, <3>1, <3>7 DEF Complete
    <3> QED BY <3>8, <3>9
  <2>3. \A f \in Files : WholeCopy(f)' = WholeCopy(f)
    BY <2>1 DEF WholeCopy
  <2> QED BY <1>2, <2>1, <2>2, <2>3 DEF CopyInv, CopiesOpen
<1>5. CASE UNCHANGED fileVars
  BY <1>5 DEF fileVars, CopyInv, WrittenInOrder, CopiesOpen, WholeCopy, Complete
<1> QED BY <1>1, <1>3, <1>4, <1>5 DEF FileNext

\* Induction, for a set of numbers.
LEMMA Induction ==
    ASSUME NEW T, 0 \in T, \A n \in Nat : n \in T => n + 1 \in T
    PROVE  Nat \subseteq T
<1> DEFINE Less == {p \in Nat \X Nat : p[1] < p[2]}  Out == Nat \ T
<1> SUFFICES ASSUME Out # {} PROVE FALSE
  OBVIOUS
<1>1. IsWellFoundedOn(Less, Nat)
  BY NatLessThanWellFounded DEF OpToRel
<1>2. PICK x \in Out : \A y \in Out : <<y, x>> \notin Less
  <2>1. Out \in SUBSET Nat
    OBVIOUS
  <2> HIDE DEF Less, Out
  <2> QED BY <1>1, <2>1, WFMin
<1>3. \A y \in Out : ~(y < x)
  BY <1>2
<1>4. x \in Nat /\ x # 0 /\ x \notin T
  OBVIOUS
<1>5. x - 1 \in Nat /\ x - 1 < x /\ (x - 1) + 1 = x
  BY <1>4
<1>6. x - 1 \in T
  BY <1>3, <1>5
<1> QED BY <1>4, <1>5, <1>6

\* The chunks joined so far.
IsJoin(f, n, q) == f = [i \in 0 .. n |-> IF i = 0 THEN <<>> ELSE f[i - 1] \o q[i]]

\* There are such sequences.
LEMMA JoinExists ==
    ASSUME NEW q, NEW n \in Nat
    PROVE  \E f : IsJoin(f, n, q)
<1> DEFINE T == {m \in Nat : \E f : IsJoin(f, m, q)}
<1>1. 0 \in T
  <2>1. IsJoin([i \in 0 .. 0 |-> <<>>], 0, q)
    BY DEF IsJoin
  <2> QED BY <2>1
<1>2. ASSUME NEW m \in Nat, m \in T PROVE m + 1 \in T
  <2>1. PICK before : IsJoin(before, m, q)
    BY <1>2
  <2> DEFINE f == [i \in 0 .. m + 1 |-> IF i = m + 1 THEN before[m] \o q[m + 1] ELSE before[i]]
  <2>2. ASSUME NEW i \in 0 .. m + 1
        PROVE  f[i] = IF i = 0 THEN <<>> ELSE f[i - 1] \o q[i]
    <3>1. CASE i = m + 1
      <4>1. i - 1 = m /\ i # 0 /\ m \in 0 .. m + 1 /\ m # m + 1
        BY <3>1
      <4>2. f[m] = before[m]
        BY <4>1
      <4>3. f[i] = before[m] \o q[i]
        BY <3>1
      <4> QED BY <4>1, <4>2, <4>3
    <3>2. CASE i # m + 1
      <4>1. i \in 0 .. m /\ (i # 0 => i - 1 \in 0 .. m /\ i - 1 # m + 1)
        BY <3>2
      <4>2. before[i] = IF i = 0 THEN <<>> ELSE before[i - 1] \o q[i]
        BY <2>1, <4>1 DEF IsJoin
      <4> QED BY <3>2, <4>1, <4>2
    <3> QED BY <3>1, <3>2
  <2>3. IsJoin(f, m + 1, q)
    BY <2>2 DEF IsJoin
  <2> QED BY <2>3
<1> HIDE DEF T
<1>3. Nat \subseteq T
  BY <1>1, <1>2, Induction
<1> QED BY <1>3 DEF T

LEMMA JoinLoop ==
    ASSUME Len(out) \in Nat
    PROVE  \E f : /\ Joined = f[Len(out)] /\ f[0] = <<>>
                  /\ \A i \in 1 .. Len(out) : f[i] = f[i - 1] \o out[i]
<1> DEFINE f == CHOOSE g : g = [i \in 0 .. Len(out) |-> IF i = 0 THEN <<>> ELSE g[i - 1] \o out[i]]
<1>1. Joined = f[Len(out)]
  BY DEF Joined
<1>3. IsJoin(f, Len(out), out)
  <2> HIDE DEF f
  <2>1. PICK g : IsJoin(g, Len(out), out)
    BY JoinExists
  <2>2. \E h : h = [i \in 0 .. Len(out) |-> IF i = 0 THEN <<>> ELSE h[i - 1] \o out[i]]
    BY <2>1, Zenon DEF IsJoin
  <2>3. f = [i \in 0 .. Len(out) |-> IF i = 0 THEN <<>> ELSE f[i - 1] \o out[i]]
    BY <2>2, Zenon DEF f
  <2> QED BY <2>3, Zenon DEF IsJoin
<1> HIDE DEF f
<1>4. f[0] = <<>> /\ \A i \in 1 .. Len(out) : f[i] = f[i - 1] \o out[i]
  <2>1. 0 \in 0 .. Len(out) /\ \A i \in 1 .. Len(out) : i \in 0 .. Len(out) /\ i # 0
    OBVIOUS
  <2>2. \A i \in 0 .. Len(out) : f[i] = IF i = 0 THEN <<>> ELSE f[i - 1] \o out[i]
    BY <1>3, Zenon DEF IsJoin
  <2> QED BY <2>1, <2>2
<1> QED BY <1>1, <1>4

\* The chunks of a file, joined, are the file.
LEMMA ChunksJoin ==
    ASSUME FileInv, NEW f \in Files, stored.header = f, Read(f, counter) = <<>>
    PROVE  Joined = Plain[f]
<1>1. counter \in Nat /\ Len(out) = counter /\ \A i \in 1 .. counter : out[i] = Read(f, i - 1)
  BY DEF FileInv, Prefix
<1>2. PICK join : /\ Joined = join[counter] /\ join[0] = <<>>
                  /\ \A i \in 1 .. counter : join[i] = join[i - 1] \o out[i]
  BY <1>1, JoinLoop
<1> DEFINE q == Plain[f]  L == Len(q)
           T == {n \in Nat : n <= counter => join[n] = SubSeq(q, 1, Least(n * ChunkSize, L))}
<1>3. q \in Seq(Nat) /\ L \in Nat /\ ChunkSize \in Nat /\ ChunkSize > 0
  BY EncryptedFileAssumption
<1>4. 0 \in T
  <2>1. 0 * ChunkSize = 0 /\ Least(0, L) = 0
    BY <1>3 DEF Least
  <2>2. SubSeq(q, 1, 0) = <<>>
    BY <1>3
  <2> QED BY <1>2, <2>1, <2>2
<1>5. ASSUME NEW n \in Nat, n \in T PROVE n + 1 \in T
  <2> SUFFICES ASSUME n + 1 <= counter
               PROVE  join[n + 1] = SubSeq(q, 1, Least((n + 1) * ChunkSize, L))
    OBVIOUS
  <2> DEFINE m == n * ChunkSize  e == Least(m + ChunkSize, L)
  <2>1. join[n] = SubSeq(q, 1, Least(m, L))
    BY <1>1, <1>5
  <2>2. join[n + 1] = join[n] \o Read(f, n)
    <3>1. n + 1 \in 1 .. counter /\ (n + 1) - 1 = n
      BY <1>1
    <3> QED BY <1>1, <1>2, <3>1
  <2>3. m \in Nat /\ (n + 1) * ChunkSize = m + ChunkSize
    BY <1>3
  <2>4. Read(f, n) = SubSeq(q, m + 1, e)
    BY <2>3 DEF Read
  <2> HIDE DEF m, q, T
  <2>5. CASE m <= L
    <3>1. Least(m, L) = m /\ e \in Nat /\ m <= e /\ e <= L
      BY <1>3, <2>3, <2>5 DEF Least
    <3> HIDE DEF e
    <3>2. SubSeq(q, 1, m) \o SubSeq(q, m + 1, e) = SubSeq(q, 1, e)
      BY <1>3, <2>3, <3>1, ConcatAdjacentSubSeq
    <3> QED BY <2>1, <2>2, <2>3, <2>4, <3>1, <3>2 DEF e
  <2>6. CASE m > L
    <3>1. Least(m, L) = L /\ e = L /\ m + 1 > L
      BY <1>3, <2>3, <2>6 DEF Least
    <3> HIDE DEF e
    <3>2. SubSeq(q, m + 1, e) = <<>> /\ SubSeq(q, 1, L) \in Seq(Nat)
      BY <1>3, <2>3, <3>1
    <3>3. SubSeq(q, 1, L) \o <<>> = SubSeq(q, 1, L)
      BY <3>2
    <3> QED BY <2>1, <2>2, <2>3, <2>4, <3>1, <3>2, <3>3 DEF e
  <2> QED BY <1>3, <2>3, <2>5, <2>6
<1> HIDE DEF T
<1>6. Nat \subseteq T
  BY <1>4, <1>5, Induction
<1>7. Joined = SubSeq(q, 1, Least(counter * ChunkSize, L))
  BY <1>1, <1>2, <1>6 DEF T
<1>8. L <= counter * ChunkSize /\ counter * ChunkSize \in Nat
  BY <1>1, ChunkNumbers
<1>9. Least(counter * ChunkSize, L) = L
  BY <1>3, <1>8 DEF Least
<1>10. SubSeq(q, 1, L) = q
  BY <1>3
<1> QED BY <1>7, <1>9, <1>10

\* FileSpec => []RoundTrip, for any files and any chunk size: what encrypt_file wrote,
\* decrypt_file reads, and no chunk is missing, repeated or taken for the last one.
THEOREM EncryptionIsUndone == FileSpec => []RoundTrip
<1>1. FileInv /\ CopyInv => RoundTrip
  <2> SUFFICES ASSUME FileInv, CopyInv, NEW f \in Files, stored = WholeCopy(f)
               PROVE  result # "error" /\ (result = "ok" => Joined = Plain[f])
    BY DEF RoundTrip, WholeCopy
  <2>1. result # "error"
    BY DEF CopyInv, CopiesOpen
  <2>2. stored.header = f
    BY DEF WholeCopy
  <2>3. result = "ok" => Read(f, counter) = <<>>
    BY <2>2 DEF FileInv, OkAtTheEnd
  <2> QED BY <2>1, <2>2, <2>3, ChunksJoin
<1> QED BY <1>1, FileInvInit, FileInvNext, CopyInvInit, CopyInvNext, PTL DEF FileSpec
=============================================================================
