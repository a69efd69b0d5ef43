------------------------ MODULE BackupServiceProofs ------------------------
(***************************************************************************)
(* Theorems about BackupService, for every number of backups, workers and  *)
(* deleting threads, every assignment of requests and every set of faults. *)
(***************************************************************************)
EXTENDS BackupService, TLAPS

\* The types of what the constants give.
LEMMA ConstantFacts ==
    /\ MaxBackups \in Nat /\ MaxSecond \in Nat /\ MaxVariant \in Nat
    /\ \A b \in Ids : Ask[b].stem \in Stems
    /\ NoName \notin Names
    /\ Ids \subseteq Nat /\ 0 \notin Ids
    /\ Absent \in Rows /\ Started \in Rows
BY BoundsAssumption, AskAssumption, NoNameAssumption
   DEF Ids, Absent, Started, Rows, Statuses, Verdicts

\* A row keeps its type whatever column an UPDATE sets.
LEMMA SetRowType ==
    ASSUME rows \in [Ids -> Rows], NEW b \in Ids, NEW row \in Rows, SetRow(b, row)
    PROVE  rows' \in [Ids -> Rows]
BY DEF SetRow

\* No step takes a variable out of its type.
LEMMA TypeOKStep == TypeOK /\ [Next]_vars => TypeOK'
<1> SUFFICES ASSUME TypeOK, [Next]_vars PROVE TypeOK'
  OBVIOUS
<1> USE ConstantFacts DEF TypeOK
<1>1. ASSUME NEW b \in Ids, Request(b) PROVE TypeOK'
  BY <1>1 DEF Request, Goto, Stages, Active, locals, deleting, Ids
<1>2. ASSUME NEW b \in Ids, Work(b) PROVE TypeOK'
  <2>0. CASE Submit(b)
    BY <2>0 DEF Submit, Goto, Stages, Active, store, locals, deleting
  <2>1. CASE Start(b)
    BY <2>1 DEF Start, Goto, Stages, Active, store, deleting
  <2>2. CASE Dump(b)
    BY <2>2 DEF Dump, Goto, Stages, Active, store, locals, deleting
  <2>3. CASE ChooseName(b)
    <3>1. \A v \in 0..MaxVariant : Variant(b, v) \in Names
      BY DEF Variant, Names
    <3>2. final' \in [Ids -> Names \cup {NoName}]
      BY <2>3, <3>1 DEF ChooseName, Unused
    <3> QED
      BY <2>3, <3>2 DEF ChooseName, Goto, Stages, Active, store, deleting
  <2>4. CASE MovePart(b)
    BY <2>4 DEF MovePart, Goto, Stages, Active, locals, deleting, Contents, Damaged
  <2>5. CASE Replace(b)
    <3>1. /\ parts' \in [Names -> Contents]
          /\ disk' \in [Names -> Contents]
      <4>1. CASE final[b] \in Names
        BY <2>5, <4>1 DEF Replace, Contents, NoFile
      <4>2. CASE final[b] \notin Names
        BY <2>5, <4>2 DEF Replace, Contents, NoFile
      <4> QED BY <4>1, <4>2
    <3> QED
      BY <2>5, <3>1 DEF Replace, Goto, Stages, Active, locals, deleting
  <2>6. CASE Record(b)
    <3>1. [rows[b] EXCEPT !.status = "success", !.path = final[b]] \in Rows
      BY DEF Rows, Statuses
    <3>2. rows' \in [Ids -> Rows]
      BY <2>6, <3>1, SetRowType DEF Record
    <3> QED
      BY <2>6, <3>2 DEF Record, Goto, Stages, Active, locals, deleting
  <2>7. CASE Reread(b)
    BY <2>7 DEF Reread, Goto, Stages, Active, store, deleting, Verdicts
  <2>8. CASE Verify(b)
    <3>1. Answers(b) \subseteq Verdicts
      BY DEF Answers, Verdicts
    <3> QED
      BY <2>8, <3>1 DEF Verify, Goto, Stages, Active, store, deleting
  <2>9. CASE Persist(b)
    <3>1. [rows[b] EXCEPT !.verification = verdict[b]] \in Rows
      BY DEF Rows
    <3>2. rows' \in [Ids -> Rows]
      BY <2>9, <3>1, SetRowType DEF Persist
    <3> QED
      BY <2>9, <3>2 DEF Persist, Goto, Stages, Active, locals, deleting
  <2>10. CASE Cleanup(b)
    BY <2>10 DEF Cleanup, RemoveQuietly, Goto, Stages, Active, locals, deleting, Contents
  <2>11. CASE Mark(b)
    <3>1. [rows[b] EXCEPT !.status = "failed"] \in Rows
      BY DEF Rows, Statuses
    <3>2. rows' \in [Ids -> Rows]
      BY <2>11, <3>1, SetRowType DEF Mark
    <3> QED
      BY <2>11, <3>2 DEF Mark, Goto, Stages, Active, locals, deleting
  <2> QED
    BY <1>2, <2>0, <2>1, <2>2, <2>3, <2>4, <2>5, <2>6, <2>7, <2>8, <2>9, <2>10, <2>11 DEF Work
<1>3. ASSUME NEW d \in Admins, NEW b \in Ids, Fetch(d, b) PROVE TypeOK'
  <2>1. AsRead(b) \in Ids \X (Names \cup {NoName})
    BY DEF AsRead, Rows
  <2> QED
    BY <1>3, <2>1 DEF Fetch, Deleters, store, locals
<1>4. ASSUME NEW d \in Reapers, NEW c \in Conns, ListDoomed(d, c) PROVE TypeOK'
  <2>1. \A b \in Ids : AsRead(b) \in Ids \X (Names \cup {NoName})
    BY DEF AsRead, Rows
  <2>2. Selectable(c) \subseteq Ids
    BY DEF Selectable, Candidates
  <2>3. PICK S \in SUBSET Selectable(c) :
           doomed' = [doomed EXCEPT ![d] = {AsRead(b) : b \in S}]
    BY <1>4 DEF ListDoomed
  <2>4. \A b \in S : AsRead(b) \in Ids \X (Names \cup {NoName})
    BY <2>1, <2>2
  <2>5. doomed' \in [Deleters -> SUBSET (Ids \X (Names \cup {NoName}))]
    BY <2>3, <2>4 DEF Deleters
  <2> QED
    BY <1>4, <2>5 DEF ListDoomed, store, locals
<1>5. ASSUME NEW d \in Deleters, Delete(d) PROVE TypeOK'
  <2>1. CASE Unlink(d)
    BY <1>5, <2>1 DEF Unlink, RemoveQuietly, locals, Contents
  <2>2. CASE RemoveRow(d)
    BY <1>5, <2>2 DEF RemoveRow, locals
  <2> QED
    BY <1>5, <2>1, <2>2 DEF Delete
<1>6. ASSUME NEW n \in Names, BitRot(n) PROVE TypeOK'
  BY <1>6 DEF BitRot, locals, deleting, Contents
<1>7. CASE Tick
  BY <1>7 DEF Tick, store, locals, deleting
<1>8. CASE Crash
  BY <1>8 DEF Crash, store, locals, Stages
<1>9. CASE Restart
  <2>1. Interrupted \in [Ids -> Rows]
    BY DEF Interrupted, Rows, Statuses
  <2> QED
    BY <1>9, <2>1 DEF Restart, locals, deleting
<1>10. CASE UNCHANGED vars
  BY <1>10 DEF vars
<1> QED
  BY <1>1, <1>2, <1>3, <1>4, <1>5, <1>6, <1>7, <1>8, <1>9, <1>10 DEF Next

\* Every variable keeps its type: Spec => []TypeOK.
THEOREM TypeCorrect == Spec => []TypeOK
<1>1. Init => TypeOK
  BY ConstantFacts, BoundsAssumption DEF Init, TypeOK, Contents, NoFile, Stages, Verdicts
<1>2. TypeOK /\ [Next]_vars => TypeOK'
  BY TypeOKStep
<1> QED
  BY <1>1, <1>2, PTL DEF Spec

----------------------------------------------------------------------------
(* A row's status agrees with the stage of its run. *)

\* SetRow changes one row, and only if it is there.
LEMMA SetRowStatus ==
    ASSUME rows \in [Ids -> Rows], NEW b \in Ids, NEW row \in Rows, SetRow(b, row)
    PROVE  /\ \A a \in Ids : a # b => rows'[a] = rows[a]
           /\ rows'[b].status \in {row.status, "absent"}
           /\ rows[b].status = "absent" => rows'[b] = rows[b]
           /\ rows[b].status # "absent" => rows'[b] = row
BY DEF SetRow, Present

\* Enough for a step of run b to keep StagesAgree: it moves that run and that
\* row alone, to a stage and a status that agree.
LEMMA OneRunMoves ==
    ASSUME TypeOK, StagesAgree, NEW b \in Ids, NEW stage \in Stages,
           up, UNCHANGED <<up, nextId, doomed, held>>,
           pc[b] # "idle", stage # "idle", Goto(b, stage),
           \A a \in Ids : a # b => rows'[a] = rows[a],
           RowFitsStage(b)'
    PROVE  StagesAgree'
<1>1. \A a \in Ids : pc'[a] = IF a = b THEN stage ELSE pc[a]
  BY DEF Goto, TypeOK
<1>2. \A a \in Ids : RowFitsStage(a)'
  BY <1>1 DEF RowFitsStage, StagesAgree
<1>3. RunsAreNumbered'
  BY <1>1 DEF StagesAgree, RunsAreNumbered
<1>4. DeletionsAreNumbered'
  BY DEF StagesAgree, DeletionsAreNumbered
<1> QED
  BY <1>2, <1>3, <1>4 DEF StagesAgree

\* The id in what a deleting thread has read is an id.
LEMMA PairFirst == ASSUME NEW S, NEW e \in Ids \X S PROVE e[1] \in Ids
OBVIOUS

\* No step of a worker, a deletion, a crash or a restart parts a row from its run.
LEMMA StagesAgreeStep == TypeOK /\ StagesAgree /\ [Next]_vars => StagesAgree'
<1> SUFFICES ASSUME TypeOK, StagesAgree, [Next]_vars PROVE StagesAgree'
  OBVIOUS
<1> USE ConstantFacts
<1>1. ASSUME NEW b \in Ids, Request(b) PROVE StagesAgree'
  <2>1. \A a \in Ids : /\ pc'[a] = IF a = b THEN "prepared" ELSE pc[a]
                       /\ rows'[a] = IF a = b THEN Started ELSE rows[a]
    BY <1>1 DEF Request, Goto, TypeOK
  <2>2. \A a \in Ids : RowFitsStage(a)'
    BY <1>1, <2>1 DEF Request, StagesAgree, RowFitsStage, Started, BeforeSuccess, AfterSuccess
  <2>3. RunsAreNumbered'
    <3>1. b = nextId /\ nextId' = nextId + 1 /\ nextId \in Nat
      BY <1>1 DEF Request, TypeOK
    <3>2. \A a \in Ids : pc[a] = "idle" <=> a >= nextId
      BY DEF StagesAgree, RunsAreNumbered
    <3>3. ASSUME NEW a \in Ids PROVE pc'[a] = "idle" <=> a >= nextId'
      <4>1. CASE a = b
        BY <2>1, <3>1, <4>1
      <4>2. CASE a # b
        BY <2>1, <3>1, <3>2, <4>2
      <4> QED BY <4>1, <4>2
    <3> QED
      BY <3>3 DEF RunsAreNumbered
  <2>4. \A d \in Deleters : held'[d] < nextId'
    <3> SUFFICES ASSUME NEW d \in Deleters PROVE held[d] < nextId + 1
      BY <1>1 DEF Request, deleting
    <3>1. held[d] \in Ids \cup {0}
      BY DEF TypeOK
    <3>2. held[d] < nextId
      BY DEF StagesAgree, DeletionsAreNumbered
    <3>3. nextId \in Nat
      BY DEF TypeOK
    <3>4. held[d] \in Nat
      BY <3>1 DEF Ids
    <3> QED
      BY <3>2, <3>3, <3>4
  <2>5. \A d \in Deleters : \A e \in doomed'[d] : e[1] < nextId'
    <3> SUFFICES ASSUME NEW d \in Deleters, NEW e \in doomed[d] PROVE e[1] < nextId + 1
      BY <1>1 DEF Request, deleting
    <3>1. e \in Ids \X (Names \cup {NoName})
      BY DEF TypeOK
    <3>2. e[1] \in Nat
      BY <3>1, PairFirst
    <3> QED
      BY <3>2 DEF StagesAgree, DeletionsAreNumbered, TypeOK
  <2>6. DeletionsAreNumbered'
    BY <2>4, <2>5 DEF DeletionsAreNumbered
  <2> QED
    BY <1>1, <2>2, <2>3, <2>6 DEF Request, StagesAgree
<1>2. ASSUME NEW b \in Ids, Work(b) PROVE StagesAgree'
  <2> DEFINE Fixed == UNCHANGED <<up, nextId, doomed, held>>
  <2> USE DEF StagesAgree, RowFitsStage, Stages, Active, BeforeSuccess, AfterSuccess, TypeOK
  <2>0. CASE Submit(b)
    <3>1. PICK stage \in {"queued", "lost", "raised"} :
             Goto(b, stage) /\ (stage = "raised" => ~Present(b))
      BY <2>0 DEF Submit
    <3>2. rows' = rows /\ Fixed /\ up /\ pc[b] = "prepared" /\ pc'[b] = stage
      BY <2>0, <3>1 DEF Submit, store, deleting, Goto
    <3>3. RowFitsStage(b)'
      BY <3>1, <3>2 DEF Present
    <3> QED BY <3>1, <3>2, <3>3, OneRunMoves
  <2>1. CASE Start(b)
    <3>1. PICK stage \in {"dump", "cleanup", "lost", "raised"} :
             Goto(b, stage) /\ (stage = "raised" => ~Present(b))
      BY <2>1 DEF Start
    <3>2. rows' = rows /\ Fixed /\ up /\ pc[b] = "queued" /\ pc'[b] = stage
      BY <2>1, <3>1 DEF Start, store, deleting, Goto
    <3>3. RowFitsStage(b)'
      BY <3>1, <3>2 DEF Present
    <3> QED BY <3>1, <3>2, <3>3, OneRunMoves
  <2>2. CASE Dump(b)
    <3>1. PICK stage \in {"name", "cleanup"} : Goto(b, stage)
      BY <2>2 DEF Dump
    <3>2. rows' = rows /\ Fixed /\ up /\ pc[b] = "dump" /\ pc'[b] = stage
      BY <2>2, <3>1 DEF Dump, store, deleting, Goto
    <3> QED BY <3>1, <3>2, OneRunMoves
  <2>3. CASE ChooseName(b)
    <3>1. PICK stage \in {"move", "cleanup"} : Goto(b, stage)
      BY <2>3 DEF ChooseName
    <3>2. rows' = rows /\ Fixed /\ up /\ pc[b] = "name" /\ pc'[b] = stage
      BY <2>3, <3>1 DEF ChooseName, store, deleting, Goto
    <3> QED BY <3>1, <3>2, OneRunMoves
  <2>4. CASE MovePart(b)
    <3>1. PICK stage \in {"replace", "cleanup"} : Goto(b, stage)
      BY <2>4 DEF MovePart
    <3>2. rows' = rows /\ Fixed /\ up /\ pc[b] = "move" /\ pc'[b] = stage
      BY <2>4, <3>1 DEF MovePart, deleting, Goto
    <3> QED BY <3>1, <3>2, OneRunMoves
  <2>5. CASE Replace(b)
    <3>1. PICK stage \in {"record", "cleanup"} : Goto(b, stage)
      BY <2>5 DEF Replace
    <3>2. rows' = rows /\ Fixed /\ up /\ pc[b] = "replace" /\ pc'[b] = stage
      BY <2>5, <3>1 DEF Replace, deleting, Goto
    <3> QED BY <3>1, <3>2, OneRunMoves
  <2>6. CASE Record(b)
    <3>1. Fixed /\ up /\ pc[b] = "record"
      BY <2>6 DEF Record, deleting
    <3> DEFINE Done == [rows[b] EXCEPT !.status = "success", !.path = final[b]]
    <3>2. Done \in Rows /\ Done.status = "success"
      BY DEF Rows, Statuses
    <3>3. CASE SetRow(b, Done) /\ Goto(b, "reread")
      <4>1. /\ \A a \in Ids : a # b => rows'[a] = rows[a]
            /\ rows'[b].status \in {"success", "absent"}
        BY <3>2, <3>3, SetRowStatus
      <4>2. pc'[b] = "reread"
        BY <3>3 DEF Goto
      <4> QED BY <3>1, <3>3, <4>1, <4>2, OneRunMoves
    <3>4. CASE Goto(b, "cleanup") /\ UNCHANGED rows
      <4>1. pc'[b] = "cleanup"
        BY <3>4 DEF Goto
      <4> QED BY <3>1, <3>4, <4>1, OneRunMoves
    <3> QED BY <2>6, <3>3, <3>4 DEF Record
  <2>7. CASE Reread(b)
    <3>1. PICK stage \in {"verify", "persist", "cleanup", "raised"} :
             Goto(b, stage) /\ (stage = "raised" => ~Present(b))
      BY <2>7 DEF Reread
    <3>2. rows' = rows /\ Fixed /\ up /\ pc[b] = "reread" /\ pc'[b] = stage
      BY <2>7, <3>1 DEF Reread, store, deleting, Goto
    <3>3. RowFitsStage(b)'
      BY <3>1, <3>2 DEF Present
    <3> QED BY <3>1, <3>2, <3>3, OneRunMoves
  <2>8. CASE Verify(b)
    <3>1. PICK stage \in {"persist", "cleanup"} : Goto(b, stage)
      BY <2>8 DEF Verify
    <3>2. rows' = rows /\ Fixed /\ up /\ pc[b] = "verify" /\ pc'[b] = stage
      BY <2>8, <3>1 DEF Verify, store, deleting, Goto
    <3> QED BY <3>1, <3>2, OneRunMoves
  <2>9. CASE Persist(b)
    <3> DEFINE Seen == [rows[b] EXCEPT !.verification = verdict[b]]
    <3>1. PICK stage \in {"done", "mark", "cleanup"} : Goto(b, stage)
      BY <2>9 DEF Persist
    <3>2. /\ Fixed /\ up /\ pc[b] = "persist" /\ pc'[b] = stage
          /\ SetRow(b, Seen) \/ UNCHANGED rows
      BY <2>9, <3>1 DEF Persist, deleting, Goto
    <3>3. Seen \in Rows /\ Seen.status = rows[b].status
      BY DEF Rows
    <3>4. /\ \A a \in Ids : a # b => rows'[a] = rows[a]
          /\ rows'[b].status \in {"success", "absent"}
      BY <3>2, <3>3, SetRowStatus
    <3> QED BY <3>1, <3>2, <3>4, OneRunMoves
  <2>10. CASE Cleanup(b)
    <3>1. rows' = rows /\ Fixed /\ up /\ pc[b] = "cleanup" /\ Goto(b, "mark") /\ pc'[b] = "mark"
      BY <2>10 DEF Cleanup, deleting, Goto
    <3> QED BY <3>1, OneRunMoves
  <2>11. CASE Mark(b)
    <3> DEFINE Failed == [rows[b] EXCEPT !.status = "failed"]
    <3>1. Fixed /\ up /\ pc[b] = "mark"
      BY <2>11 DEF Mark, deleting
    <3>2. Failed \in Rows /\ Failed.status = "failed"
      BY DEF Rows, Statuses
    <3>3. CASE SetRow(b, Failed) /\ Goto(b, "done")
      <4>1. /\ \A a \in Ids : a # b => rows'[a] = rows[a]
            /\ rows'[b].status \in {"failed", "absent"}
        BY <3>2, <3>3, SetRowStatus
      <4>2. pc'[b] = "done"
        BY <3>3 DEF Goto
      <4> QED BY <3>1, <3>3, <4>1, <4>2, OneRunMoves
    <3>4. CASE Goto(b, "lost") /\ UNCHANGED rows
      <4>1. pc'[b] = "lost"
        BY <3>4 DEF Goto
      <4> QED BY <3>1, <3>4, <4>1, OneRunMoves
    <3> QED BY <2>11, <3>3, <3>4 DEF Mark
  <2> QED
    BY <1>2, <2>0, <2>1, <2>2, <2>3, <2>4, <2>5, <2>6, <2>7, <2>8, <2>9, <2>10, <2>11 DEF Work
<1>3. ASSUME NEW d \in Admins, NEW b \in Ids, Fetch(d, b) PROVE StagesAgree'
  <2>1. b < nextId
    BY <1>3 DEF Fetch, Present, StagesAgree, RunsAreNumbered, RowFitsStage, TypeOK
  <2>2. DeletionsAreNumbered'
    BY <1>3, <2>1 DEF Fetch, StagesAgree, DeletionsAreNumbered, AsRead, TypeOK
  <2> QED
    BY <1>3, <2>2 DEF Fetch, store, locals, StagesAgree, RowFitsStage, RunsAreNumbered
<1>4. ASSUME NEW d \in Reapers, NEW c \in Conns, ListDoomed(d, c) PROVE StagesAgree'
  <2>1. \A b \in Selectable(c) : b \in Ids /\ b < nextId
    <3> SUFFICES ASSUME NEW b \in Selectable(c) PROVE b \in Ids /\ b < nextId
      OBVIOUS
    <3>1. b \in Ids /\ rows[b].status = "success"
      BY DEF Selectable, Candidates
    <3>2. pc[b] # "idle"
      BY <3>1 DEF StagesAgree, RowFitsStage
    <3>3. ~(b >= nextId)
      BY <3>1, <3>2 DEF StagesAgree, RunsAreNumbered
    <3>4. b \in Nat
      BY <3>1 DEF Ids
    <3>5. nextId \in Nat
      BY DEF TypeOK
    <3> QED
      BY <3>1, <3>3, <3>4, <3>5
  <2>2. PICK S \in SUBSET Selectable(c) :
           doomed' = [doomed EXCEPT ![d] = {AsRead(b) : b \in S}]
    BY <1>4 DEF ListDoomed
  <2>3. \A e \in {AsRead(b) : b \in S} : e[1] < nextId
    BY <2>1 DEF AsRead
  <2>4. DeletionsAreNumbered'
    BY <1>4, <2>2, <2>3 DEF ListDoomed, StagesAgree, DeletionsAreNumbered, TypeOK
  <2> QED
    BY <1>4, <2>4 DEF ListDoomed, store, locals, StagesAgree, RowFitsStage, RunsAreNumbered
<1>5. ASSUME NEW d \in Deleters, Delete(d) PROVE StagesAgree'
  <2>1. CASE Unlink(d)
    <3>1. DeletionsAreNumbered'
      BY <2>1, <1>5 DEF Unlink, StagesAgree, DeletionsAreNumbered, TypeOK
    <3> QED
      BY <2>1, <3>1 DEF Unlink, locals, StagesAgree, RowFitsStage, RunsAreNumbered
  <2>2. CASE RemoveRow(d)
    <3>1. \A a \in Ids : rows'[a].status \in {rows[a].status, "absent"}
      BY <2>2 DEF RemoveRow, Absent, TypeOK
    <3>2. \A a \in Ids : RowFitsStage(a)'
      BY <2>2, <3>1 DEF RemoveRow, StagesAgree, RowFitsStage, BeforeSuccess, AfterSuccess
    <3>3. DeletionsAreNumbered'
      BY <2>2, <1>5 DEF RemoveRow, StagesAgree, DeletionsAreNumbered, TypeOK
    <3> QED
      BY <2>2, <3>2, <3>3 DEF RemoveRow, StagesAgree, RunsAreNumbered
  <2> QED
    BY <1>5, <2>1, <2>2 DEF Delete
<1>6. ASSUME NEW n \in Names, BitRot(n) PROVE StagesAgree'
  BY <1>6 DEF BitRot, deleting, StagesAgree, RowFitsStage, RunsAreNumbered, DeletionsAreNumbered
<1>7. CASE Tick
  BY <1>7 DEF Tick, store, deleting, StagesAgree, RowFitsStage, RunsAreNumbered,
              DeletionsAreNumbered
<1>8. CASE Crash
  <2>1. \A a \in Ids : pc'[a] = IF pc[a] \in Active \cup {"lost"} THEN "dead" ELSE pc[a]
    BY <1>8 DEF Crash
  <2>2. \A a \in Ids : RowFitsStage(a)' /\ pc'[a] \notin Active \cup {"lost"}
    BY <1>8, <2>1 DEF Crash, store, StagesAgree, RowFitsStage, Active, BeforeSuccess, AfterSuccess
  <2>3. RunsAreNumbered'
    BY <1>8, <2>1 DEF Crash, StagesAgree, RunsAreNumbered, Active
  <2>4. DeletionsAreNumbered'
    BY <1>8 DEF Crash, DeletionsAreNumbered, TypeOK
  <2> QED
    BY <2>2, <2>3, <2>4 DEF StagesAgree
<1>9. CASE Restart
  <2>1. \A a \in Ids : /\ rows[a].status = "running" => rows'[a].status = "failed"
                       /\ rows[a].status # "running" => rows'[a] = rows[a]
    BY <1>9 DEF Restart, Interrupted, TypeOK, Rows
  <2>2. \A a \in Ids : RowFitsStage(a)'
    BY <1>9, <2>1 DEF Restart, StagesAgree, RowFitsStage, Active, BeforeSuccess, AfterSuccess
  <2> QED
    BY <1>9, <2>2 DEF Restart, deleting, StagesAgree, RunsAreNumbered, DeletionsAreNumbered
<1>10. CASE UNCHANGED vars
  BY <1>10 DEF vars, StagesAgree, RowFitsStage, RunsAreNumbered, DeletionsAreNumbered
<1> QED
  BY <1>1, <1>2, <1>3, <1>4, <1>5, <1>6, <1>7, <1>8, <1>9, <1>10 DEF Next

\* The inductive invariant: the row's status always agrees with its run's stage.
THEOREM StagesAlwaysAgree == Spec => []StagesAgree
<1>1. Init => StagesAgree
  BY ConstantFacts DEF Init, StagesAgree, RowFitsStage, RunsAreNumbered, DeletionsAreNumbered,
                       Absent, BeforeSuccess, AfterSuccess, Ids
<1> QED
  BY <1>1, StagesAgreeStep, TypeCorrect, PTL DEF Spec

\* A row that says running has a worker on its way to an outcome, unless the
\* store refused the access that would have brought it there.
THEOREM RunningRowsHaveWorkers == Spec => []RunningHasWorker
<1>1. TypeOK /\ StagesAgree => RunningHasWorker
  BY DEF TypeOK, StagesAgree, RowFitsStage, RunningHasWorker, Stages, BeforeSuccess, AfterSuccess
<1> QED
  BY <1>1, StagesAlwaysAgree, TypeCorrect, PTL

----------------------------------------------------------------------------
(* The rows live the life that BackupLedger describes. *)

\* A step that changes the row of b alone moves the phase of b alone.
LEMMA OnePhaseMoves ==
    ASSUME NEW b \in Ids, NEW to, ~(b >= nextId), nextId' = nextId,
           \A a \in Ids : a # b => rows'[a] = rows[a],
           to = IF rows'[b].status # "absent" THEN rows'[b].status ELSE "gone"
    PROVE  Phase' = [Phase EXCEPT ![b] = to]
BY DEF Phase, Present

\* Nothing moves while no status does.
LEMMA NoPhaseMoves ==
    ASSUME nextId' = nextId, \A a \in Ids : rows'[a].status = rows[a].status
    PROVE  Phase' = Phase
BY DEF Phase, Present

\* A run that has been handed to a worker has an id that has been handed out.
LEMMA RunIsNumbered ==
    ASSUME StagesAgree, NEW b \in Ids, pc[b] # "idle" PROVE ~(b >= nextId)
BY DEF StagesAgree, RunsAreNumbered

\* Every step of the service is a step of the ledger, or leaves it alone.
LEMMA LedgerStep == TypeOK /\ StagesAgree /\ [Next]_vars => [Ledger!LedgerNext]_Phase
<1> SUFFICES ASSUME TypeOK, StagesAgree, [Next]_vars PROVE [Ledger!LedgerNext]_Phase
  OBVIOUS
<1>ids. Ledger!Ids = Ids
  BY DEF Ledger!Ids, Ids
<1>1. ASSUME NEW b \in Ids, Request(b) PROVE Ledger!Begin(b)
  <2>1. b = nextId /\ nextId' = nextId + 1 /\ rows' = [rows EXCEPT ![b] = Started]
    BY <1>1 DEF Request
  <2>2. Phase[b] = "unborn"
    BY <2>1, ConstantFacts DEF Phase
  <2>3. \A a \in 1..(b - 1) : Phase[a] # "unborn"
    <3> SUFFICES ASSUME NEW a \in 1..(b - 1) PROVE Phase[a] # "unborn"
      OBVIOUS
    <3>1. a \in Ids /\ ~(a >= nextId)
      BY <2>1, ConstantFacts DEF Ids
    <3> QED
      BY <3>1 DEF Phase, TypeOK, Rows, Statuses
  <2>4. Phase' = [Phase EXCEPT ![b] = "running"]
    <3>1. rows'[b].status = "running" /\ \A a \in Ids : a # b => rows'[a] = rows[a]
      BY <2>1 DEF TypeOK, Started
    <3>2. \A a \in Ids : a # b => (a >= nextId <=> a >= nextId')
      BY <2>1, ConstantFacts DEF Ids
    <3>3. ~(b >= nextId')
      BY <2>1, ConstantFacts DEF Ids
    <3>4. \A a \in Ids : a # b => Phase'[a] = Phase[a]
      BY <3>1, <3>2 DEF Phase, Present
    <3>5. Phase'[b] = "running"
      BY <3>1, <3>3 DEF Phase, Present
    <3> QED
      BY <3>4, <3>5 DEF Phase
  <2> QED
    BY <2>2, <2>3, <2>4 DEF Ledger!Begin, Ledger!Move
<1>2. ASSUME NEW b \in Ids, Work(b)
      PROVE  Ledger!Succeed(b) \/ Ledger!Fail(b) \/ UNCHANGED Phase
  <2>1. CASE Record(b)
    <3> DEFINE Done == [rows[b] EXCEPT !.status = "success", !.path = final[b]]
    <3>1. CASE Present(b) /\ SetRow(b, Done)
      <4>1. rows[b].status = "running" /\ Phase[b] = "running"
        BY <2>1, <3>1, RunIsNumbered
           DEF Record, Present, StagesAgree, RowFitsStage, BeforeSuccess, Phase
      <4>2. Done \in Rows /\ Done.status = "success"
        BY DEF TypeOK, Rows, Statuses
      <4>3. rows'[b].status = "success" /\ \A a \in Ids : a # b => rows'[a] = rows[a]
        BY <3>1, <4>2 DEF SetRow, TypeOK
      <4>4. Phase' = [Phase EXCEPT ![b] = "success"]
        BY <2>1, <4>3, RunIsNumbered, OnePhaseMoves DEF Record
      <4> QED
        BY <4>1, <4>4 DEF Ledger!Succeed, Ledger!Move
    <3>2. CASE UNCHANGED rows
      BY <2>1, <3>2, NoPhaseMoves DEF Record
    <3> QED
      BY <2>1, <3>1, <3>2 DEF Record, SetRow
  <2>2. CASE Mark(b)
    <3> DEFINE Failed == [rows[b] EXCEPT !.status = "failed"]
    <3>1. CASE Present(b) /\ SetRow(b, Failed)
      <4>1. rows[b].status \in {"running", "success"} /\ Phase[b] = rows[b].status
        BY <2>2, <3>1, RunIsNumbered
           DEF Mark, Present, StagesAgree, RowFitsStage, Phase, TypeOK, Rows, Statuses
      <4>2. Failed \in Rows /\ Failed.status = "failed"
        BY DEF TypeOK, Rows, Statuses
      <4>3. rows'[b].status = "failed" /\ \A a \in Ids : a # b => rows'[a] = rows[a]
        BY <2>2, <3>1, <4>2 DEF Mark, SetRow, TypeOK
      <4>4. Phase' = [Phase EXCEPT ![b] = "failed"]
        BY <2>2, <4>3, RunIsNumbered, OnePhaseMoves DEF Mark
      <4> QED
        BY <4>1, <4>4 DEF Ledger!Fail, Ledger!Move
    <3>2. CASE UNCHANGED rows
      BY <2>2, <3>2, NoPhaseMoves DEF Mark
    <3> QED
      BY <2>2, <3>1, <3>2 DEF Mark, SetRow
  <2>3. CASE Persist(b)
    <3> DEFINE Seen == [rows[b] EXCEPT !.verification = verdict[b]]
    <3>1. Seen \in Rows /\ Seen.status = rows[b].status
      BY DEF TypeOK, Rows
    <3>2. \A a \in Ids : rows'[a].status = rows[a].status
      BY <2>3, <3>1 DEF Persist, SetRow, TypeOK
    <3> QED
      BY <2>3, <3>2, NoPhaseMoves DEF Persist
  <2>4. CASE UNCHANGED <<rows, nextId>>
    BY <2>4, NoPhaseMoves
  <2> QED
    BY <1>2, <2>1, <2>2, <2>3, <2>4
       DEF Work, Submit, Start, Dump, ChooseName, MovePart, Replace, Reread, Verify, Cleanup, store
<1>3. ASSUME NEW d \in Deleters, RemoveRow(d)
      PROVE  Ledger!Drop(held[d]) \/ UNCHANGED Phase
  <2> DEFINE h == held[d]
  <2>1. h \in Ids /\ h < nextId /\ nextId' = nextId /\ nextId \in Nat
    BY <1>3, ConstantFacts DEF RemoveRow, TypeOK, StagesAgree, DeletionsAreNumbered, Deleters
  <2>2. ~(h >= nextId)
    BY <2>1 DEF Ids
  <2>3. \/ UNCHANGED rows
        \/ rows'[h].status = "absent" /\ \A a \in Ids : a # h => rows'[a] = rows[a]
    BY <1>3, <2>1 DEF RemoveRow, TypeOK, Absent
  <2>4. CASE Present(h) /\ ~UNCHANGED rows
    <3>1. Phase[h] \in {"running", "success", "failed"}
      BY <2>1, <2>2, <2>4 DEF Phase, TypeOK, Rows, Statuses, Present
    <3>2. Phase' = [Phase EXCEPT ![h] = "gone"]
      BY <2>1, <2>2, <2>3, <2>4, OnePhaseMoves
    <3> QED
      BY <3>1, <3>2 DEF Ledger!Drop, Ledger!Move
  <2>5. CASE ~Present(h)
    BY <2>1, <2>3, <2>5, NoPhaseMoves DEF Present
  <2>6. CASE UNCHANGED rows
    BY <2>1, <2>6, NoPhaseMoves
  <2> QED
    BY <2>4, <2>5, <2>6
<1>4. ASSUME Restart PROVE Ledger!Interrupt
  <2>1. \A a \in Ids : /\ rows[a].status = "running" => rows'[a].status = "failed"
                       /\ rows[a].status # "running" => rows'[a] = rows[a]
    BY <1>4 DEF Restart, Interrupted, TypeOK, Rows
  <2>2. nextId' = nextId
    BY <1>4 DEF Restart
  <2> QED
    BY <2>1, <2>2, <1>ids DEF Ledger!Interrupt, Phase, Present
<1>5. CASE UNCHANGED <<rows, nextId>>
  BY <1>5, NoPhaseMoves
<1>6. \A d \in Deleters : RemoveRow(d) => held[d] \in Ids
  BY DEF RemoveRow, TypeOK
<1> QED
  BY <1>1, <1>2, <1>3, <1>4, <1>5, <1>6, <1>ids
     DEF Next, Fetch, ListDoomed, Delete, Unlink, BitRot, Tick, Crash, vars, store, Ledger!LedgerNext

\* BackupService implements BackupLedger.
THEOREM ImplementsLedger == Spec => LedgerHolds
<1>1. Init => Ledger!LedgerInit
  BY DEF Init, Ledger!LedgerInit, Ledger!Ids, Phase, Ids
<1> QED
  BY <1>1, LedgerStep, TypeCorrect, StagesAlwaysAgree, PTL
     DEF Spec, LedgerHolds, Ledger!LedgerSpec

LEMMA FailedStays ==
    ASSUME TypeOK, TypeOK', StagesAgree, StagesAgree', [Next]_vars
    PROVE  \A b \in Ids : rows[b].status = "failed" => rows'[b].status \in {"failed", "absent"}
<1> SUFFICES ASSUME NEW b \in Ids, rows[b].status = "failed"
             PROVE  rows'[b].status \in {"failed", "absent"}
  OBVIOUS
<1>1. Phase[b] = "failed"
  BY DEF StagesAgree, RunsAreNumbered, RowFitsStage, Phase, Present
<1>2. Phase'[b] \in {"failed", "gone"}
  BY <1>1, LedgerStep DEF Ledger!LedgerNext, Ledger!Begin, Ledger!Succeed, Ledger!Fail,
     Ledger!Drop, Ledger!Interrupt, Ledger!Move, Ledger!Ids, Ids, Phase
<1> QED
  BY <1>2 DEF Phase, Present, TypeOK, Rows, Statuses

\* A failed row stays failed until it is deleted.
THEOREM FailedRowsStayFailed == Spec => FailedIsFinal
<1>1. TypeOK /\ TypeOK' /\ StagesAgree /\ StagesAgree' /\ [Next]_vars =>
        [\A b \in Ids : rows[b].status = "failed" => rows'[b].status \in {"failed", "absent"}]_vars
  BY FailedStays
<1> QED
  BY <1>1, TypeCorrect, StagesAlwaysAgree, PTL DEF Spec, FailedIsFinal

=============================================================================
