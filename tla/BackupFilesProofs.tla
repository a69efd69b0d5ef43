------------------------- MODULE BackupFilesProofs -------------------------
(***************************************************************************)
(* Theorems about the files of the backup directory and the rows that name *)
(* them: no file is left without a row, no name is given to two backups,   *)
(* no deletion removes the file of another backup, retention spares the    *)
(* newest success.                                                         *)
(***************************************************************************)
EXTENDS VerifyRequests, BackupServiceProofs, FiniteSetTheorems

----------------------------------------------------------------------------
(* What the steps have in common *)

\* A step of run b changes no other run and no other row, and no deletion.
LEMMA WorkIsLocal ==
    ASSUME TypeOK, NEW b \in Ids, Work(b)
    PROVE  /\ up /\ UNCHANGED <<up, nextId, doomed, held, cut>>
           /\ \A a \in Ids : a # b => /\ pc'[a] = pc[a] /\ rows'[a] = rows[a]
                                      /\ final'[a] = final[a] /\ verdict'[a] = verdict[a]
<1> USE DEF TypeOK, Goto, SetRow, store, locals, deleting
<1>0. CASE Submit(b)
  BY <1>0 DEF Submit
<1>1. CASE Start(b)
  BY <1>1 DEF Start
<1>2. CASE Dump(b)
  BY <1>2 DEF Dump
<1>3. CASE ChooseName(b)
  BY <1>3 DEF ChooseName
<1>4. CASE MovePart(b)
  BY <1>4 DEF MovePart
<1>5. CASE Replace(b)
  BY <1>5 DEF Replace
<1>6. CASE Record(b)
  BY <1>6 DEF Record
<1>7. CASE Reread(b)
  BY <1>7 DEF Reread
<1>8. CASE Verify(b)
  BY <1>8 DEF Verify
<1>9. CASE Persist(b)
  BY <1>9 DEF Persist
<1>10. CASE Cleanup(b)
  BY <1>10 DEF Cleanup
<1>11. CASE Mark(b)
  BY <1>11 DEF Mark
<1> QED
  BY <1>0, <1>1, <1>2, <1>3, <1>4, <1>5, <1>6, <1>7, <1>8, <1>9, <1>10, <1>11 DEF Work

\* The row of b after one of the three steps of its run that write it.
LEMMA RecordedRow ==
    ASSUME TypeOK, NEW b \in Ids, SetRow(b, [rows[b] EXCEPT !.status = "success", !.path = final[b]])
    PROVE  /\ rows'[b].verification = rows[b].verification
           /\ IF rows[b].status = "absent" THEN rows'[b] = rows[b]
              ELSE rows'[b].status = "success" /\ rows'[b].path = final[b]
BY DEF TypeOK, SetRow, Present, Rows

LEMMA CheckedRow ==
    ASSUME TypeOK, NEW b \in Ids, SetRow(b, [rows[b] EXCEPT !.verification = verdict[b]])
    PROVE  rows'[b].status = rows[b].status /\ rows'[b].path = rows[b].path
BY DEF TypeOK, SetRow, Present, Rows

LEMMA FailedRow ==
    ASSUME TypeOK, NEW b \in Ids, SetRow(b, [rows[b] EXCEPT !.status = "failed"])
    PROVE  /\ rows'[b].path = rows[b].path
           /\ rows'[b].status = IF rows[b].status = "absent" THEN "absent" ELSE "failed"
BY DEF TypeOK, SetRow, Present, Rows

\* What a deletion read it takes away, and it remembers whose file that was.
LEMMA UnlinkTakes ==
    ASSUME TypeOK, NEW d \in Deleters, Unlink(d)
    PROVE  \E e \in doomed[d] :
             /\ e[1] \in Ids /\ e[2] \in Names \cup {NoName}
             /\ held[d] = 0 /\ held'[d] = e[1]
             /\ \A c \in Deleters : c # d => held'[c] = held[c]
             /\ UNCHANGED <<nextId, rows, parts, up, pc, final, verdict, doomed, cut>>
             /\ \A n \in Names : n # e[2] => disk'[n] = disk[n]
             /\ e[2] = NoName => disk' = disk
             /\ e[2] # NoName => disk' = disk \/ disk'[e[2]] = NoFile
             /\ "stuck" \notin Faults /\ e[2] # NoName => disk'[e[2]] = NoFile
<1>1. PICK e \in doomed[d] : RemoveQuietly(e[2]) /\ held' = [held EXCEPT ![d] = e[1]]
  BY DEF Unlink
<1>2. e \in Ids \X (Names \cup {NoName})
  BY DEF TypeOK
<1>3. e[1] \in Ids /\ e[2] \in Names \cup {NoName}
  BY <1>2
<1>4. /\ \A n \in Names : n # e[2] => disk'[n] = disk[n]
      /\ e[2] = NoName => disk' = disk
      /\ e[2] # NoName => disk' = disk \/ disk'[e[2]] = NoFile
      /\ "stuck" \notin Faults /\ e[2] # NoName => disk'[e[2]] = NoFile
  BY <1>1, <1>3 DEF RemoveQuietly, TypeOK
<1> QED
  BY <1>1, <1>3, <1>4 DEF Unlink, locals, TypeOK

\* Then its row, or, if that raises, nothing; either way it is done with it.
LEMMA RemoveRowTakes ==
    ASSUME TypeOK, NEW d \in Deleters, RemoveRow(d)
    PROVE  /\ held[d] \in Ids /\ held'[d] = 0
           /\ \A c \in Deleters : c # d => held'[c] = held[c] /\ doomed'[c] = doomed[c]
           /\ \A a \in Ids : a # held[d] => rows'[a] = rows[a]
           /\ UNCHANGED <<nextId, disk, parts, up, pc, final, verdict, cut>>
           /\ \/ /\ rows'[held[d]] = Absent
                 /\ doomed'[d] = {e \in doomed[d] : e[1] # held[d]}
              \/ "erase" \in Faults /\ rows' = rows /\ doomed'[d] = {}
BY DEF RemoveRow, locals, TypeOK

\* What a deletion has read are rows' ids.
LEMMA DoomedIds ==
    ASSUME TypeOK PROVE \A d \in Deleters : \A e \in doomed[d] : e[1] \in Ids
<1> SUFFICES ASSUME NEW d \in Deleters, NEW e \in doomed[d] PROVE e[1] \in Ids
  OBVIOUS
<1>1. e \in Ids \X (Names \cup {NoName})
  BY DEF TypeOK
<1> QED
  BY <1>1, PairFirst

\* A deletion that begins reads any row, and it is known when that was running.
LEMMA FetchReads ==
    ASSUME TypeOK, NEW d \in Admins, NEW b \in Ids, Fetch(d, b)
    PROVE  /\ Present(b) /\ cut \subseteq cut' /\ (rows[b].status = "running" => b \in cut')
           /\ doomed'[d] = {<<b, rows[b].path>>}
           /\ \A c \in Deleters : c # d => doomed'[c] = doomed[c]
           /\ UNCHANGED <<nextId, rows, disk, parts, up, pc, final, verdict, held>>
BY DEF Fetch, AsRead, store, locals, TypeOK, Deleters

\* Retention reads successes, each with a newer one beside it.
LEMMA ListReads ==
    ASSUME TypeOK, NEW d \in Reapers, NEW k \in Conns, ListDoomed(d, k)
    PROVE  /\ \A e \in doomed'[d] :
                 /\ e[1] \in Candidates(k) /\ e[2] = rows[e[1]].path
                 /\ \E newer \in Candidates(k) : newer > e[1]
           /\ \A c \in Deleters : c # d => doomed'[c] = doomed[c]
           /\ UNCHANGED <<nextId, rows, disk, parts, up, pc, final, verdict, held, cut>>
<1>1. PICK S \in SUBSET Selectable(k) : doomed' = [doomed EXCEPT ![d] = {AsRead(b) : b \in S}]
  BY DEF ListDoomed
<1>2. \A b \in Selectable(k) : b \in Candidates(k) /\ \E newer \in Candidates(k) : newer > b
  BY DEF Selectable
<1>3. d \in Deleters /\ doomed'[d] = {<<b, rows[b].path>> : b \in S}
  BY <1>1 DEF TypeOK, Deleters, AsRead
<1>4. \A e \in doomed'[d] : \E b \in S : e[1] = b /\ e[2] = rows[b].path
  BY <1>3
<1> QED
  BY <1>1, <1>2, <1>4 DEF ListDoomed, store, locals, TypeOK

----------------------------------------------------------------------------
(* No file without a row *)

\* The row that answers for a name: it names it and no deletion has taken the
\* file from it, or its run is about to record the name or to remove the file,
\* or its deletion began while it was running.
Owns(b, n) ==
    \/ rows[b].path = n /\ \A d \in Deleters : held[d] # b
    \/ final[b] = n /\ (pc[b] \in {"record", "cleanup"} \/ b \in cut)

\* The run has not recorded an outcome and no deletion can have met its row.
Early == {"idle"} \cup BeforeSuccess

\* The run has not looked for a name yet.
Unnamed == {"idle", "prepared", "queued", "dump", "name"}

\* What makes NoOrphanFile inductive: a deletion that met its row after the run's
\* success read the final path, so the file it takes is the one its row (or
\* nothing) names, and the row of a run that is about to record its file is still
\* there to record it in, unless its deletion began before that.
OwnersKnown ==
    /\ up
    /\ \A n \in Names : disk[n] # NoFile => \E b \in Ids : Owns(b, n)
    /\ \A b \in Ids : pc[b] \in Early => rows[b].path = NoName
    /\ \A b \in Ids : pc[b] \in Unnamed => final[b] = NoName
    /\ \A b \in Ids : pc[b] \in BeforeSuccess => rows[b].status = "running" \/ b \in cut
    /\ \A b \in Ids : rows[b].path \in {NoName, final[b]}
    /\ \A d \in Deleters : \A e \in doomed[d] :
          e[1] \in cut \/ (pc[e[1]] \notin Early /\ rows[e[1]].path \in {NoName, e[2]})
    /\ \A d \in Deleters : held[d] # 0 => held[d] \in cut \/ pc[held[d]] \notin Early

\* Enough for a step of run b: it stays answerable for what it answered for, and
\* for the file it adds; its row changes no path that a deletion may have read.
LEMMA OneRunsOwners ==
    ASSUME TypeOK, OwnersKnown, NEW b \in Ids, Work(b),
           \A n \in Names : disk'[n] # NoFile =>
               Owns(b, n)' \/ (disk[n] # NoFile /\ (Owns(b, n) => Owns(b, n)')),
           pc'[b] \in Early => pc[b] \in Early /\ rows'[b].path = NoName,
           pc'[b] \in Unnamed => final'[b] = NoName,
           pc'[b] \in BeforeSuccess => rows'[b].status = "running" \/ b \in cut,
           rows'[b].path \in {NoName, final'[b]},
           pc[b] \notin Early => rows'[b].path \in {NoName, rows[b].path}
    PROVE  OwnersKnown'
<1>1. /\ up /\ UNCHANGED <<up, nextId, doomed, held, cut>>
      /\ \A a \in Ids : a # b => /\ pc'[a] = pc[a] /\ rows'[a] = rows[a]
                                 /\ final'[a] = final[a] /\ verdict'[a] = verdict[a]
  BY WorkIsLocal
<1>2. \A n \in Names, a \in Ids : a # b => (Owns(a, n) <=> Owns(a, n)')
  BY <1>1 DEF Owns
<1>3. \A n \in Names : disk'[n] # NoFile => \E a \in Ids : Owns(a, n)'
  BY <1>2 DEF OwnersKnown
<1>4. /\ \A a \in Ids : pc'[a] \in Early => rows'[a].path = NoName
      /\ \A a \in Ids : pc'[a] \in Unnamed => final'[a] = NoName
      /\ \A a \in Ids : pc'[a] \in BeforeSuccess => rows'[a].status = "running" \/ a \in cut'
      /\ \A a \in Ids : rows'[a].path \in {NoName, final'[a]}
  BY <1>1 DEF OwnersKnown
<1>5. \A d \in Deleters : \A e \in doomed'[d] :
         e[1] \in cut' \/ (pc'[e[1]] \notin Early /\ rows'[e[1]].path \in {NoName, e[2]})
  <2> SUFFICES ASSUME NEW d \in Deleters, NEW e \in doomed[d], e[1] \notin cut
               PROVE  pc'[e[1]] \notin Early /\ rows'[e[1]].path \in {NoName, e[2]}
    BY <1>1
  <2>1. e \in Ids \X (Names \cup {NoName})
    BY DEF TypeOK
  <2>2. e[1] \in Ids
    BY <2>1, PairFirst
  <2>3. pc[e[1]] \notin Early /\ rows[e[1]].path \in {NoName, e[2]}
    BY DEF OwnersKnown
  <2> QED
    BY <1>1, <2>2, <2>3
<1>6. \A d \in Deleters : held'[d] # 0 => held'[d] \in cut' \/ pc'[held'[d]] \notin Early
  BY <1>1 DEF OwnersKnown, TypeOK
<1> QED
  BY <1>1, <1>3, <1>4, <1>5, <1>6 DEF OwnersKnown

LEMMA WorkKeepsOwners ==
    ASSUME "stuck" \notin Faults, TypeOK, OwnersKnown, NEW b \in Ids, Work(b)
    PROVE  OwnersKnown'
<1> USE ConstantFacts DEF Goto, Early, Unnamed, BeforeSuccess, store, locals, deleting
<1>1. /\ pc[b] \in Early => rows[b].path = NoName
      /\ pc[b] \in Unnamed => final[b] = NoName
      /\ pc[b] \in BeforeSuccess => rows[b].status = "running" \/ b \in cut
      /\ rows[b].path \in {NoName, final[b]}
  BY DEF OwnersKnown
<1>2. /\ pc \in [Ids -> Stages] /\ disk \in [Names -> Contents] /\ final \in [Ids -> Names \cup {NoName}]
      /\ rows \in [Ids -> Rows]
  BY DEF TypeOK
<1>0. CASE Submit(b)
  BY <1>0, <1>1, <1>2, OneRunsOwners DEF Submit, Owns
<1>3. CASE Start(b)
  BY <1>1, <1>2, <1>3, OneRunsOwners DEF Start, Owns
<1>4. CASE Dump(b)
  BY <1>1, <1>2, <1>4, OneRunsOwners DEF Dump, Owns
<1>5. CASE ChooseName(b)
  BY <1>1, <1>2, <1>5, OneRunsOwners DEF ChooseName, Owns
<1>6. CASE MovePart(b)
  BY <1>1, <1>2, <1>6, OneRunsOwners DEF MovePart, Owns
<1>7. CASE Replace(b)
  <2>1. pc[b] = "replace" /\ pc'[b] \in {"record", "cleanup"} /\ UNCHANGED <<rows, final, held, cut>>
    BY <1>2, <1>7 DEF Replace
  <2>2. \A n \in Names : n # final[b] => disk'[n] = disk[n]
    BY <1>2, <1>7 DEF Replace
  <2>3. \A n \in Names : disk'[n] # NoFile =>
               Owns(b, n)' \/ (disk[n] # NoFile /\ (Owns(b, n) => Owns(b, n)'))
    BY <2>1, <2>2 DEF Owns
  <2> QED
    BY <1>1, <2>1, <2>3, OneRunsOwners
<1>8. CASE Record(b)
  <2>1. CASE SetRow(b, [rows[b] EXCEPT !.status = "success", !.path = final[b]]) /\ Goto(b, "reread")
    <3>1. pc[b] = "record" /\ pc'[b] = "reread" /\ UNCHANGED <<disk, final, held, cut>>
      BY <1>2, <1>8, <2>1 DEF Record
    <3>2. \/ b \in cut /\ rows'[b].path \in {NoName, final[b]}
          \/ rows'[b].path = final[b] /\ \A d \in Deleters : held[d] # b
      <4>1. rows'[b].path = final[b] \/ (rows[b].status = "absent" /\ rows'[b].path = NoName)
        BY <1>1, <2>1, <3>1, RecordedRow
      <4>2. b \in cut \/ \A d \in Deleters : held[d] # b
        BY <3>1 DEF OwnersKnown, TypeOK
      <4> QED
        BY <1>1, <3>1, <4>1, <4>2
    <3>3. \A n \in Names : Owns(b, n) => Owns(b, n)'
      BY <1>1, <3>1, <3>2 DEF Owns
    <3> QED
      BY <3>1, <3>2, <3>3, OneRunsOwners
  <2>2. CASE Goto(b, "cleanup") /\ UNCHANGED rows
    BY <1>1, <1>2, <1>8, <2>2, OneRunsOwners DEF Record, Owns
  <2> QED
    BY <1>8, <2>1, <2>2 DEF Record
<1>9. CASE Reread(b)
  BY <1>1, <1>2, <1>9, OneRunsOwners DEF Reread, Owns
<1>10. CASE Verify(b)
  BY <1>1, <1>2, <1>10, OneRunsOwners DEF Verify, Owns
<1>11. CASE Persist(b)
  <2>1. /\ pc[b] = "persist" /\ pc'[b] \in {"done", "mark", "cleanup"}
        /\ UNCHANGED <<disk, final, held, cut>>
    BY <1>2, <1>11 DEF Persist
  <2>2. rows'[b].status = rows[b].status /\ rows'[b].path = rows[b].path
    BY <1>11, CheckedRow DEF Persist
  <2> QED
    BY <1>1, <2>1, <2>2, OneRunsOwners DEF Owns
<1>12. CASE Cleanup(b)
  <2>1. pc[b] = "cleanup" /\ pc'[b] = "mark" /\ UNCHANGED <<rows, final, held, cut>>
    BY <1>2, <1>12 DEF Cleanup
  <2>2. \A n \in Names : disk'[n] # NoFile => n # final[b] /\ disk'[n] = disk[n]
    BY <1>2, <1>12 DEF Cleanup, RemoveQuietly
  <2> QED
    BY <1>1, <2>1, <2>2, OneRunsOwners DEF Owns
<1>13. CASE Mark(b)
  <2>1. pc[b] = "mark" /\ pc'[b] \in {"done", "lost"} /\ UNCHANGED <<disk, final, held, cut>>
    BY <1>2, <1>13 DEF Mark
  <2>2. rows'[b].path = rows[b].path
    BY <1>13, <2>1, FailedRow DEF Mark
  <2> QED
    BY <1>1, <2>1, <2>2, OneRunsOwners DEF Owns
<1> QED
  BY <1>0, <1>3, <1>4, <1>5, <1>6, <1>7, <1>8, <1>9, <1>10, <1>11, <1>12, <1>13 DEF Work

LEMMA OwnersKnownStep ==
    ASSUME Faults \cap {"stuck", "crash"} = {},
           TypeOK, StagesAgree, OwnersKnown, [Next]_vars
    PROVE  OwnersKnown'
<1> USE ConstantFacts DEF Early, Unnamed, BeforeSuccess
<1> DEFINE Answered == \A n \in Names : disk[n] # NoFile => \E b \in Ids : Owns(b, n)
<1>stages. \A b \in Ids : pc[b] \in Early => rows[b].status \in {"absent", "running"}
  BY DEF StagesAgree, RowFitsStage
<1>read. \A d \in Deleters : \A e \in doomed[d] : e[1] \in Ids
  BY DoomedIds
<1>1. ASSUME NEW b \in Ids, Request(b) PROVE OwnersKnown'
  <2>1. pc[b] = "idle"
    BY <1>1 DEF Request, StagesAgree, RunsAreNumbered, TypeOK
  <2>2. /\ UNCHANGED <<disk, final, up, doomed, held, cut>>
        /\ \A a \in Ids : a # b => pc'[a] = pc[a] /\ rows'[a] = rows[a]
        /\ pc'[b] = "prepared" /\ rows'[b] = Started
    BY <1>1 DEF Request, Goto, locals, deleting, TypeOK
  <2>3. \A d \in Deleters : /\ held[d] = b => b \in cut
                            /\ \A e \in doomed[d] : e[1] = b => b \in cut
    BY <2>1 DEF OwnersKnown, TypeOK
  <2>4. Answered'
    <3>1. \A a \in Ids, n \in Names : Owns(a, n) => Owns(a, n)'
      BY <2>1, <2>2 DEF Owns, OwnersKnown
    <3> QED
      BY <2>2, <3>1 DEF OwnersKnown
  <2>5. \A d \in Deleters : \A e \in doomed'[d] :
           e[1] \in cut' \/ (pc'[e[1]] \notin Early /\ rows'[e[1]].path \in {NoName, e[2]})
    <3> SUFFICES ASSUME NEW d \in Deleters, NEW e \in doomed[d], e[1] \notin cut
                 PROVE  pc'[e[1]] \notin Early /\ rows'[e[1]].path \in {NoName, e[2]}
      BY <2>2
    <3>1. e[1] \in Ids /\ e[1] # b
      BY <1>read, <2>3
    <3> QED
      BY <2>2, <3>1 DEF OwnersKnown
  <2>6. \A d \in Deleters : held'[d] # 0 => held'[d] \in cut' \/ pc'[held'[d]] \notin Early
    BY <2>2, <2>3 DEF OwnersKnown, TypeOK
  <2>7. final[b] = NoName
    BY <2>1 DEF OwnersKnown
  <2> QED
    BY <2>2, <2>4, <2>5, <2>6, <2>7 DEF OwnersKnown, Started
<1>2. ASSUME NEW b \in Ids, Work(b) PROVE OwnersKnown'
  BY <1>2, WorkKeepsOwners
<1>3. ASSUME NEW d \in Admins, NEW b \in Ids, Fetch(d, b) PROVE OwnersKnown'
  <2>1. /\ Present(b) /\ cut \subseteq cut' /\ (rows[b].status = "running" => b \in cut')
        /\ UNCHANGED <<rows, disk, up, pc, final, held>>
        /\ \A c \in Deleters : \A e \in doomed'[c] : e \in doomed[c] \/ e = <<b, rows[b].path>>
    BY <1>3, FetchReads
  <2>2. b \in cut' \/ pc[b] \notin Early
    BY <2>1, <1>stages DEF Present
  <2>3. \A c \in Deleters : \A e \in doomed'[c] :
           e[1] \in cut' \/ (pc'[e[1]] \notin Early /\ rows'[e[1]].path \in {NoName, e[2]})
    BY <2>1, <2>2 DEF OwnersKnown
  <2>4. \A a \in Ids, n \in Names : Owns(a, n) => Owns(a, n)'
    BY <2>1 DEF Owns
  <2>5. Answered' /\ \A c \in Deleters : held'[c] # 0 => held'[c] \in cut' \/ pc'[held'[c]] \notin Early
    BY <2>1, <2>4 DEF OwnersKnown
  <2> QED
    BY <2>1, <2>3, <2>5 DEF OwnersKnown
<1>4. ASSUME NEW d \in Reapers, NEW k \in Conns, ListDoomed(d, k) PROVE OwnersKnown'
  <2>1. /\ UNCHANGED <<rows, disk, up, pc, final, held, cut>>
        /\ \A c \in Deleters : \A e \in doomed'[c] :
              e \in doomed[c] \/ (e[1] \in Candidates(k) /\ e[2] = rows[e[1]].path)
    BY <1>4, ListReads
  <2>2. \A b \in Candidates(k) : b \in Ids /\ pc[b] \notin Early
    BY <1>stages DEF Candidates
  <2>3. \A c \in Deleters : \A e \in doomed'[c] :
           e[1] \in cut' \/ (pc'[e[1]] \notin Early /\ rows'[e[1]].path \in {NoName, e[2]})
    BY <2>1, <2>2 DEF OwnersKnown
  <2> QED
    BY <2>1, <2>3 DEF OwnersKnown, Owns
<1>5. ASSUME NEW d \in Deleters, Unlink(d) PROVE OwnersKnown'
  <2>1. PICK e \in doomed[d] :
           /\ e[1] \in Ids /\ held[d] = 0 /\ held'[d] = e[1]
           /\ \A c \in Deleters : c # d => held'[c] = held[c]
           /\ UNCHANGED <<rows, up, pc, final, doomed, cut>>
           /\ \A n \in Names : n # e[2] => disk'[n] = disk[n]
           /\ e[2] # NoName => disk'[e[2]] = NoFile
    BY <1>5, UnlinkTakes
  <2>2. e[1] \in cut \/ (pc[e[1]] \notin Early /\ rows[e[1]].path \in {NoName, e[2]})
    BY <2>1 DEF OwnersKnown
  <2>3. ASSUME NEW a \in Ids, NEW n \in Names, n # e[2], Owns(a, n) PROVE Owns(a, n)'
    <3>1. CASE a # e[1]
      BY <2>1, <2>3, <3>1 DEF Owns
    <3>2. CASE a = e[1] /\ rows[a].path = n
      <4>1. a \in cut /\ final[a] = n
        BY <2>2, <2>3, <3>2 DEF OwnersKnown
      <4> QED
        BY <2>1, <4>1 DEF Owns
    <3>3. CASE rows[a].path # n
      BY <2>1, <2>3, <3>3 DEF Owns
    <3> QED
      BY <3>1, <3>2, <3>3
  <2>4. Answered'
    <3> SUFFICES ASSUME NEW n \in Names, disk'[n] # NoFile PROVE \E b \in Ids : Owns(b, n)'
      OBVIOUS
    <3>1. n # e[2] /\ disk[n] # NoFile
      BY <2>1
    <3> QED
      BY <2>3, <3>1 DEF OwnersKnown
  <2>5. \A c \in Deleters : held'[c] # 0 => held'[c] \in cut' \/ pc'[held'[c]] \notin Early
    BY <2>1, <2>2 DEF OwnersKnown
  <2> QED
    BY <2>1, <2>4, <2>5 DEF OwnersKnown
<1>6. ASSUME NEW d \in Deleters, RemoveRow(d) PROVE OwnersKnown'
  <2>0. PICK h \in Ids : h = held[d]
    BY <1>6, RemoveRowTakes
  <2>1. /\ held'[d] = 0
        /\ \A c \in Deleters : c # d => held'[c] = held[c] /\ doomed'[c] = doomed[c]
        /\ \A a \in Ids : a # h => rows'[a] = rows[a]
        /\ UNCHANGED <<disk, up, pc, final, cut>>
        /\ \/ rows'[h] = Absent /\ doomed'[d] = {e \in doomed[d] : e[1] # h}
           \/ rows' = rows /\ doomed'[d] = {}
    BY <1>6, <2>0, RemoveRowTakes
  <2>2. h \in cut \/ pc[h] \notin Early
    BY <2>0 DEF OwnersKnown
  <2>3. \A a \in Ids, n \in Names : Owns(a, n) => Owns(a, n)'
    BY <2>0, <2>1 DEF Owns
  <2>4. \A c \in Deleters : doomed'[c] \subseteq doomed[c]
    BY <2>1
  <2>6. \A b \in Ids : rows'[b] = rows[b] \/ (b = h /\ rows'[b] = Absent)
    BY <2>1
  <2>5. \A c \in Deleters : \A e \in doomed'[c] :
           e[1] \in cut' \/ (pc'[e[1]] \notin Early /\ rows'[e[1]].path \in {NoName, e[2]})
    <3> SUFFICES ASSUME NEW c \in Deleters, NEW e \in doomed[c], e[1] \notin cut
                 PROVE  pc'[e[1]] \notin Early /\ rows'[e[1]].path \in {NoName, e[2]}
      BY <2>1, <2>4
    <3>1. e[1] \in Ids
      BY <1>read
    <3>2. ASSUME NEW b \in Ids PROVE rows'[b].path \in {NoName, rows[b].path}
      <4>1. CASE rows'[b] = rows[b]
        BY <4>1
      <4>2. CASE rows'[b] = Absent
        BY <4>2 DEF Absent
      <4> QED BY <2>6, <4>1, <4>2
    <3>3. pc[e[1]] \notin Early /\ rows[e[1]].path \in {NoName, e[2]}
      BY DEF OwnersKnown
    <3>4. rows'[e[1]].path \in {NoName, rows[e[1]].path}
      BY <3>1, <3>2
    <3> QED
      BY <2>1, <3>3, <3>4
  <2>7. /\ \A b \in Ids : pc'[b] \in Early => rows'[b].path = NoName
        /\ \A b \in Ids : pc'[b] \in BeforeSuccess => rows'[b].status = "running" \/ b \in cut'
        /\ \A b \in Ids : rows'[b].path \in {NoName, final'[b]}
        /\ \A c \in Deleters : held'[c] # 0 => held'[c] \in cut' \/ pc'[held'[c]] \notin Early
    BY <2>1, <2>2, <2>6 DEF OwnersKnown, Absent
  <2> QED
    BY <2>1, <2>3, <2>5, <2>7 DEF OwnersKnown
<1>7. ASSUME NEW n \in Names, BitRot(n) PROVE OwnersKnown'
  BY <1>7 DEF BitRot, locals, deleting, OwnersKnown, Owns, TypeOK, NoFile
<1>8. CASE UNCHANGED <<up, pc, rows, disk, final, doomed, held, cut>>
  BY <1>8 DEF OwnersKnown, Owns
<1>9. ~Crash /\ ~Restart
  BY DEF Crash, Restart, OwnersKnown
<1> QED
  BY <1>1, <1>2, <1>3, <1>4, <1>5, <1>6, <1>7, <1>8, <1>9
     DEF Next, Delete, Tick, vars, store, locals, deleting

\* Every file in the backup directory has a row that names it, or a run that
\* is about to record or remove it, or is the file of a backup that was deleted
\* while it ran, however many workers and deletions are at work and whatever
\* they raise, as long as the server does not die and files can be removed.
THEOREM NoFileIsOrphaned ==
    ASSUME Faults \cap {"stuck", "crash"} = {}
    PROVE  Spec => []NoOrphanFile
<1>1. Init => OwnersKnown
  BY ConstantFacts DEF Init, OwnersKnown, Absent, Early, Unnamed, BeforeSuccess
<1>2. TypeOK /\ StagesAgree /\ OwnersKnown /\ [Next]_vars => OwnersKnown'
  BY OwnersKnownStep
<1>3. OwnersKnown => NoOrphanFile
  BY DEF OwnersKnown, Owns, NoOrphanFile
<1> QED
  BY <1>1, <1>2, <1>3, TypeCorrect, StagesAlwaysAgree, PTL DEF Spec

----------------------------------------------------------------------------
(* What the files are worth when no two runs hold one name and no two       *)
(* threads delete one row, with any number of workers and deletions and all *)
(* backups of the same database                                             *)

\* Only Unlink takes a file for a deletion.
LEMMA OnlyUnlinkTakes ==
    ASSUME TypeOK, [Next]_vars, NEW d \in Deleters, held[d] = 0, held'[d] # 0
    PROVE  Unlink(d)
<1>1. ASSUME NEW b \in Ids, Request(b) \/ Work(b) PROVE held' = held
  BY <1>1, WorkIsLocal DEF Request, deleting
<1>2. ASSUME NEW k \in Admins, NEW b \in Ids, Fetch(k, b) PROVE held' = held
  BY <1>2 DEF Fetch
<1>3. ASSUME NEW k \in Reapers, NEW c \in Conns, ListDoomed(k, c) PROVE held' = held
  BY <1>3 DEF ListDoomed
<1>4. ASSUME NEW k \in Deleters, Delete(k) PROVE Unlink(d)
  BY <1>4 DEF Delete, Unlink, RemoveRow, TypeOK
<1>5. ~Crash
  BY DEF Crash
<1> QED
  BY <1>1, <1>2, <1>3, <1>4, <1>5 DEF Next, BitRot, Tick, Restart, deleting, vars

\* Nothing goes wrong behind the runs' backs: accesses to the rows and checks do
\* not raise, the server does not die, files do not rot.
Calm == Faults \cap {"store", "unexpected", "erase", "crash", "rot"} = {}

\* What holds of one run: until its file is in place nothing has the name it
\* chose, and from then on the file holds its dump unless a deletion took it.
TurnRun(b) ==
    /\ pc[b] \in Unnamed => final[b] = NoName
    /\ pc[b] \in {"move", "replace", "record"} \cup AfterSuccess => final[b] # NoName
    /\ pc[b] \in Early \cup {"cleanup"} => rows[b].path = NoName
    /\ rows[b].path \in {NoName, final[b]}
    /\ rows[b].status = "success" => rows[b].path # NoName
    /\ pc[b] \in {"move", "replace", "cleanup"} /\ final[b] # NoName => disk[final[b]] = NoFile
    /\ pc[b] = "replace" => parts[final[b]] = b
    /\ pc[b] = "record" => disk[final[b]] = b
    /\ rows[b].path # NoName => disk[rows[b].path] = b \/ \E d \in Deleters : held[d] = b

\* What a deletion read is what the row still says, and the row whose file it has
\* taken is in its list.
TurnDeletions ==
    /\ \A d \in Deleters : \A e \in doomed[d] : e[2] # NoName => rows[e[1]].path = e[2]
    /\ \A d \in Deleters : held[d] # 0 => \E e \in doomed[d] : e[1] = held[d]

TurnFiles == up /\ InTurn /\ TurnDeletions /\ \A b \in Ids : TurnRun(b)

\* Enough for a step of run b: its own part, and no file and no .part file
\* changes but under a name that b alone holds.
LEMMA OneRunInTurn ==
    ASSUME TypeOK, TurnFiles, InTurn', NEW b \in Ids, Work(b),
           TurnRun(b)',
           rows'[b].path # rows[b].path => rows[b].path = NoName,
           \A n \in Names : disk'[n] # disk[n] =>
               disk[n] = NoFile /\ n = final[b] /\ pc[b] = "replace",
           \A n \in Names : parts'[n] # parts[n] =>
               n = final[b] /\ pc[b] \in {"move", "replace"}
    PROVE  TurnFiles'
<1>1. /\ up /\ UNCHANGED <<up, nextId, doomed, held>>
      /\ \A a \in Ids : a # b => /\ pc'[a] = pc[a] /\ rows'[a] = rows[a] /\ final'[a] = final[a]
  BY WorkIsLocal
<1>2. ASSUME NEW a \in Ids, a # b PROVE TurnRun(a)'
  <2>1. /\ TurnRun(a) /\ pc'[a] = pc[a] /\ rows'[a] = rows[a] /\ final'[a] = final[a]
        /\ held' = held
    BY <1>1, <1>2 DEF TurnFiles
  <2>2. /\ rows[a].path \in Names \cup {NoName} /\ final[a] \in Names \cup {NoName}
        /\ NoFile # a
    BY DEF TypeOK, Rows, NoFile, Ids
  <2>3. pc[a] \in {"move", "replace", "cleanup"} /\ pc[b] \in {"move", "replace"} /\ final[a] # NoName
        => final[a] # final[b]
    BY <1>2 DEF TurnFiles, InTurn, NameRace
  <2>4. pc[a] \in {"move", "replace", "cleanup"} /\ final[a] # NoName => disk'[final[a]] = NoFile
    BY <2>1, <2>2, <2>3 DEF TurnRun
  <2>5. pc[a] = "replace" => parts'[final[a]] = a
    BY <2>1, <2>2, <2>3, ConstantFacts DEF TurnRun
  <2>6. pc[a] = "record" => disk'[final[a]] = a
    BY <2>1, <2>2, ConstantFacts DEF TurnRun
  <2>7. rows[a].path # NoName /\ disk[rows[a].path] = a => disk'[rows[a].path] = a
    BY <2>2
  <2> QED
    BY <2>1, <2>4, <2>5, <2>6, <2>7 DEF TurnRun
<1>3. \A d \in Deleters : \A e \in doomed'[d] : e[2] # NoName => rows'[e[1]].path = e[2]
  <2> SUFFICES ASSUME NEW d \in Deleters, NEW e \in doomed[d], e[2] # NoName
               PROVE  rows'[e[1]].path = e[2]
    BY <1>1
  <2>1. e[1] \in Ids /\ rows[e[1]].path = e[2]
    BY DoomedIds DEF TurnFiles, TurnDeletions
  <2> QED
    BY <1>1, <2>1
<1>4. TurnDeletions'
  BY <1>1, <1>3 DEF TurnFiles, TurnDeletions
<1> QED
  BY <1>1, <1>2, <1>4 DEF TurnFiles

LEMMA WorkInTurn ==
    ASSUME Calm, TypeOK, StagesAgree, TurnFiles, InTurn', NEW b \in Ids, Work(b)
    PROVE  TurnFiles'
<1> USE ConstantFacts DEF Goto, Early, Unnamed, BeforeSuccess, AfterSuccess, store, locals, deleting
<1>1. TurnRun(b)
  BY DEF TurnFiles
<1>2. /\ pc \in [Ids -> Stages] /\ disk \in [Names -> Contents] /\ parts \in [Names -> Contents]
      /\ final \in [Ids -> Names \cup {NoName}]
  BY DEF TypeOK
<1>3. CASE Submit(b)
  BY <1>1, <1>2, <1>3, OneRunInTurn DEF Submit, TurnRun, Calm
<1>4. CASE Start(b)
  BY <1>1, <1>2, <1>4, OneRunInTurn DEF Start, TurnRun, Calm
<1>5. CASE Dump(b)
  BY <1>1, <1>2, <1>5, OneRunInTurn DEF Dump, TurnRun
<1>6. CASE ChooseName(b)
  <2>1. pc[b] = "name" /\ UNCHANGED <<rows, disk, parts, held>>
    BY <1>6 DEF ChooseName
  <2>2. CASE \E v \in Unused(b) : final' = [final EXCEPT ![b] = Variant(b, v)] /\ Goto(b, "move")
    <3>1. \A v \in Unused(b) : Variant(b, v) \in Names /\ disk[Variant(b, v)] = NoFile
      BY DEF Unused, Variant, Names, TypeOK
    <3>2. pc'[b] = "move" /\ final'[b] # NoName /\ disk[final'[b]] = NoFile
      BY <1>2, <2>2, <3>1
    <3>3. TurnRun(b)'
      BY <1>1, <2>1, <3>2 DEF TurnRun
    <3> QED
      BY <2>1, <3>3, OneRunInTurn
  <2>3. CASE UNCHANGED final /\ Goto(b, "cleanup")
    BY <1>1, <1>2, <2>1, <2>3, OneRunInTurn DEF TurnRun
  <2> QED
    BY <1>6, <2>2, <2>3 DEF ChooseName
<1>7. CASE MovePart(b)
  <2>1. /\ pc[b] = "move" /\ pc'[b] \in {"replace", "cleanup"} /\ UNCHANGED <<rows, disk, final, held>>
        /\ pc'[b] = "replace" => parts' = [parts EXCEPT ![final[b]] = b]
        /\ \A n \in Names : n # final[b] => parts'[n] = parts[n]
    BY <1>2, <1>7 DEF MovePart
  <2>2. TurnRun(b)'
    BY <1>1, <1>2, <2>1 DEF TurnRun
  <2> QED
    BY <2>1, <2>2, OneRunInTurn
<1>8. CASE Replace(b)
  <2>1. /\ final[b] \in Names /\ parts[final[b]] = b /\ b # NoFile
        /\ disk[final[b]] = NoFile /\ rows[b].path = NoName
    BY <1>1, <1>2, <1>8 DEF Replace, TurnRun, NoFile
  <2>2. /\ pc[b] = "replace" /\ pc'[b] = "record" /\ disk' = [disk EXCEPT ![final[b]] = b]
        /\ parts' = [parts EXCEPT ![final[b]] = NoFile] /\ UNCHANGED <<rows, final, held>>
    BY <1>2, <1>8, <2>1 DEF Replace
  <2>3. TurnRun(b)'
    BY <1>1, <1>2, <2>1, <2>2 DEF TurnRun
  <2>4. \A n \in Names : /\ disk'[n] # disk[n] => disk[n] = NoFile /\ n = final[b]
                         /\ parts'[n] # parts[n] => n = final[b]
    BY <1>2, <2>1, <2>2
  <2> QED
    BY <2>2, <2>3, <2>4, OneRunInTurn
<1>9. CASE Record(b)
  <2>1. /\ pc[b] = "record" /\ pc'[b] = "reread" /\ UNCHANGED <<disk, parts, final, held>>
        /\ SetRow(b, [rows[b] EXCEPT !.status = "success", !.path = final[b]])
    BY <1>2, <1>9 DEF Record, Calm
  <2>2. /\ rows'[b].path \in {NoName, final[b]}
        /\ rows'[b].status = "success" => rows'[b].path = final[b]
    BY <1>1, <2>1, RecordedRow DEF TurnRun
  <2>3. TurnRun(b)'
    BY <1>1, <2>1, <2>2 DEF TurnRun
  <2> QED
    BY <1>1, <2>1, <2>3, OneRunInTurn DEF TurnRun
<1>10. CASE Reread(b)
  BY <1>1, <1>2, <1>10, OneRunInTurn DEF Reread, TurnRun, Calm
<1>11. CASE Verify(b)
  BY <1>1, <1>2, <1>11, OneRunInTurn DEF Verify, TurnRun, Calm
<1>12. CASE Persist(b)
  <2>1. /\ pc[b] = "persist" /\ pc'[b] \in {"done", "mark"} /\ UNCHANGED <<disk, parts, final, held>>
    BY <1>2, <1>12 DEF Persist, Calm
  <2>2. rows'[b].status = rows[b].status /\ rows'[b].path = rows[b].path
    BY <1>12, CheckedRow DEF Persist, Calm
  <2>3. TurnRun(b)'
    BY <1>1, <2>1, <2>2 DEF TurnRun
  <2> QED
    BY <2>1, <2>2, <2>3, OneRunInTurn
<1>13. CASE Cleanup(b)
  <2>1. pc[b] = "cleanup" /\ pc'[b] = "mark" /\ UNCHANGED <<rows, parts, final, held>>
    BY <1>2, <1>13 DEF Cleanup
  <2>2. final[b] # NoName => disk[final[b]] = NoFile
    BY <1>1, <2>1 DEF TurnRun
  <2>3. \A n \in Names : disk'[n] = disk[n]
    BY <1>2, <1>13, <2>2 DEF Cleanup, RemoveQuietly
  <2>4. TurnRun(b)'
    BY <1>1, <2>1, <2>3 DEF TurnRun
  <2> QED
    BY <2>1, <2>3, <2>4, OneRunInTurn
<1>14. CASE Mark(b)
  <2>1. /\ pc[b] = "mark" /\ pc'[b] = "done" /\ UNCHANGED <<disk, parts, final, held>>
        /\ SetRow(b, [rows[b] EXCEPT !.status = "failed"])
    BY <1>2, <1>14 DEF Mark, Calm
  <2>2. rows'[b].path = rows[b].path /\ rows'[b].status # "success"
    BY <2>1, FailedRow
  <2>3. TurnRun(b)'
    BY <1>1, <2>1, <2>2 DEF TurnRun
  <2> QED
    BY <2>1, <2>2, <2>3, OneRunInTurn
<1> QED
  BY <1>3, <1>4, <1>5, <1>6, <1>7, <1>8, <1>9, <1>10, <1>11, <1>12, <1>13, <1>14 DEF Work

LEMMA TurnFilesStep ==
    ASSUME Calm, TypeOK, StagesAgree, TurnFiles, [Next /\ InTurn']_vars
    PROVE  TurnFiles'
<1> USE ConstantFacts DEF Early, Unnamed, BeforeSuccess, AfterSuccess
<1>runs. \A b \in Ids : TurnRun(b) /\ rows[b].path \in Names \cup {NoName}
  BY DEF TurnFiles, TypeOK, Rows
<1>read. \A d \in Deleters : \A e \in doomed[d] : e[1] \in Ids
  BY DoomedIds
<1>turn. InTurn'
  <2>1. CASE InTurn'
    BY <2>1
  <2>2. CASE UNCHANGED vars
    <3>1. UNCHANGED <<pc, final, doomed>>
      BY <2>2 DEF vars
    <3>2. NameRace' = NameRace /\ DeleteRace' = DeleteRace
      BY <3>1 DEF NameRace, DeleteRace
    <3> QED
      BY <3>2 DEF TurnFiles, InTurn
  <2> QED
    BY <2>1, <2>2
<1>1. ASSUME NEW b \in Ids, Request(b) PROVE TurnFiles'
  <2>1. pc[b] = "idle" /\ rows[b].status = "absent"
    BY <1>1 DEF Request, StagesAgree, RunsAreNumbered, RowFitsStage, TypeOK
  <2>2. /\ UNCHANGED <<disk, parts, final, up, doomed, held>>
        /\ \A a \in Ids : a # b => pc'[a] = pc[a] /\ rows'[a] = rows[a]
        /\ pc'[b] = "prepared" /\ rows'[b] = Started
    BY <1>1 DEF Request, Goto, locals, deleting, TypeOK
  <2>3. \A a \in Ids : TurnRun(a)'
    BY <1>runs, <2>1, <2>2 DEF TurnRun, Started
  <2>4. \A d \in Deleters : \A e \in doomed'[d] : e[2] # NoName => rows'[e[1]].path = e[2]
    <3> SUFFICES ASSUME NEW d \in Deleters, NEW e \in doomed[d], e[2] # NoName
                 PROVE  rows'[e[1]].path = e[2]
      BY <2>2
    <3>1. e[1] \in Ids /\ rows[e[1]].path = e[2]
      BY <1>read DEF TurnFiles, TurnDeletions
    <3>2. rows[b].path = NoName
      BY <1>runs, <2>1 DEF TurnRun
    <3> QED
      BY <2>2, <3>1, <3>2
  <2> QED
    BY <1>turn, <2>2, <2>3, <2>4 DEF TurnFiles, TurnDeletions
<1>2. ASSUME NEW b \in Ids, Work(b) PROVE TurnFiles'
  BY <1>turn, <1>2, WorkInTurn
<1>3. ASSUME NEW d \in Admins, NEW b \in Ids, Fetch(d, b) PROVE TurnFiles'
  <2>1. /\ UNCHANGED <<rows, disk, parts, up, pc, final, held>>
        /\ doomed'[d] = {<<b, rows[b].path>>}
        /\ \A c \in Deleters : c # d => doomed'[c] = doomed[c]
    BY <1>3, FetchReads
  <2>2. doomed[d] = {}
    BY <1>3 DEF Fetch, Free
  <2>3. TurnDeletions'
    BY <2>1, <2>2 DEF TurnFiles, TurnDeletions
  <2> QED
    BY <1>turn, <2>1, <2>3 DEF TurnFiles, TurnRun
<1>4. ASSUME NEW d \in Reapers, NEW k \in Conns, ListDoomed(d, k) PROVE TurnFiles'
  <2>1. /\ UNCHANGED <<rows, disk, parts, up, pc, final, held>>
        /\ \A e \in doomed'[d] : e[2] = rows[e[1]].path
        /\ \A c \in Deleters : c # d => doomed'[c] = doomed[c]
    BY <1>4, ListReads
  <2>2. doomed[d] = {} /\ d \in Deleters
    BY <1>4 DEF ListDoomed, Free, Deleters
  <2>3. TurnDeletions'
    BY <2>1, <2>2 DEF TurnFiles, TurnDeletions
  <2> QED
    BY <1>turn, <2>1, <2>3 DEF TurnFiles, TurnRun
<1>5. ASSUME NEW d \in Deleters, Unlink(d) PROVE TurnFiles'
  <2>1. PICK e \in doomed[d] :
           /\ e[1] \in Ids /\ held[d] = 0 /\ held'[d] = e[1]
           /\ \A c \in Deleters : c # d => held'[c] = held[c]
           /\ UNCHANGED <<rows, parts, up, pc, final, doomed>>
           /\ \A n \in Names : n # e[2] => disk'[n] = disk[n]
           /\ e[2] = NoName => disk' = disk
           /\ e[2] # NoName => disk' = disk \/ disk'[e[2]] = NoFile
    BY <1>5, UnlinkTakes
  <2>2. \A c \in Deleters : held[c] # e[1]
    <3> SUFFICES ASSUME NEW c \in Deleters, held[c] = e[1] PROVE FALSE
      OBVIOUS
    <3>1. c # d /\ \E f \in doomed[c] : f[1] = e[1]
      BY <2>1 DEF TurnFiles, TurnDeletions
    <3> QED
      BY <2>1, <3>1 DEF TurnFiles, InTurn, DeleteRace
  <2>3. \A a \in Ids : (\E c \in Deleters : held[c] = a) => \E c \in Deleters : held'[c] = a
    BY <2>1
  <2>4. \A a \in Ids : TurnRun(a)'
    <3> SUFFICES ASSUME NEW a \in Ids PROVE TurnRun(a)'
      OBVIOUS
    <3>1. CASE disk' = disk
      BY <1>runs, <2>1, <2>3, <3>1 DEF TurnRun
    <3>2. CASE e[2] # NoName /\ disk'[e[2]] = NoFile
      <4>1. rows[e[1]].path = e[2] /\ e[2] \in Names /\ disk[e[2]] = e[1] /\ pc[e[1]] # "record"
        <5>1. TurnRun(e[1]) /\ rows[e[1]].path = e[2]
          BY <1>runs, <2>1, <3>2 DEF TurnFiles, TurnDeletions
        <5> QED
          BY <1>runs, <2>1, <2>2, <3>2, <5>1 DEF TurnRun
      <4>2. \A n \in Names : disk'[n] = disk[n] \/ (n = e[2] /\ disk'[n] = NoFile)
        BY <2>1, <3>2
      <4>3. rows[a].path # NoName => disk'[rows[a].path] = a \/ \E c \in Deleters : held'[c] = a
        BY <1>runs, <2>1, <2>3, <4>1, <4>2 DEF TurnRun
      <4>4. pc[a] = "record" => final[a] \in Names /\ disk'[final[a]] = a
        BY <1>runs, <4>1, <4>2 DEF TurnRun, TypeOK
      <4>5. pc[a] \in {"move", "replace", "cleanup"} /\ final[a] # NoName => disk'[final[a]] = NoFile
        BY <1>runs, <4>2 DEF TurnRun, TypeOK
      <4> QED
        BY <1>runs, <2>1, <4>3, <4>4, <4>5 DEF TurnRun
    <3> QED
      BY <2>1, <3>1, <3>2
  <2>5. TurnDeletions'
    BY <2>1 DEF TurnFiles, TurnDeletions
  <2> QED
    BY <1>turn, <2>1, <2>4, <2>5 DEF TurnFiles
<1>6. ASSUME NEW d \in Deleters, RemoveRow(d) PROVE TurnFiles'
  <2>0. PICK h \in Ids : h = held[d]
    BY <1>6, RemoveRowTakes
  <2>1. /\ held'[d] = 0
        /\ \A c \in Deleters : c # d => held'[c] = held[c] /\ doomed'[c] = doomed[c]
        /\ \A a \in Ids : a # h => rows'[a] = rows[a]
        /\ UNCHANGED <<disk, parts, up, pc, final>>
        /\ rows'[h] = Absent /\ doomed'[d] = {e \in doomed[d] : e[1] # h}
    BY <1>6, <2>0, RemoveRowTakes DEF Calm
  <2>2. \A c \in Deleters : c # d => \A e \in doomed[c] : e[1] # h
    <3>1. \E e \in doomed[d] : e[1] = h
      BY <2>0 DEF TurnFiles, TurnDeletions
    <3> QED
      BY <3>1 DEF TurnFiles, InTurn, DeleteRace
  <2>3. \A a \in Ids : a # h => TurnRun(a)'
    BY <1>runs, <2>0, <2>1 DEF TurnRun
  <2>4. TurnRun(h)'
    <3>1. TurnRun(h)
      BY <1>runs
    <3> QED
      BY <2>1, <3>1 DEF TurnRun, Absent
  <2>5. ASSUME NEW c \in Deleters, NEW e \in doomed'[c], e[2] # NoName
        PROVE  rows'[e[1]].path = e[2]
    <3>1. e \in doomed[c] /\ e[1] # h
      BY <2>1, <2>2, <2>5
    <3>2. e[1] \in Ids /\ rows[e[1]].path = e[2]
      BY <1>read, <2>5, <3>1 DEF TurnFiles, TurnDeletions
    <3> QED
      BY <2>1, <3>1, <3>2
  <2>6. TurnDeletions'
    BY <2>1, <2>5 DEF TurnFiles, TurnDeletions
  <2> QED
    BY <1>turn, <2>1, <2>3, <2>4, <2>6 DEF TurnFiles
<1>7. CASE UNCHANGED <<rows, disk, parts, up, pc, final, doomed, held>>
  BY <1>turn, <1>7 DEF TurnFiles, TurnDeletions, TurnRun
<1>8. ~Crash /\ ~Restart /\ \A n \in Names : ~BitRot(n)
  BY DEF Calm, TurnFiles, Crash, Restart, BitRot
<1> QED
  BY <1>1, <1>2, <1>3, <1>4, <1>5, <1>6, <1>7, <1>8
     DEF Next, Delete, Tick, vars, store, locals, deleting

\* A behaviour without the two overlaps is one of the pipeline's.
LEMMA TurnsAreBehaviours == TurnSpec => Spec
<1>1. [Next /\ InTurn']_vars => [Next]_vars
  OBVIOUS
<1> QED
  BY <1>1, PTL DEF TurnSpec, Spec

LEMMA TurnFilesAlways == ASSUME Calm PROVE TurnSpec => []TurnFiles
<1>1. Init => TurnFiles
  BY ConstantFacts DEF Init, TurnFiles, TurnDeletions, TurnRun, InTurn, NameRace, DeleteRace, Absent,
                       Early, Unnamed, BeforeSuccess, AfterSuccess
<1>2. TypeOK /\ StagesAgree /\ TurnFiles /\ [Next /\ InTurn']_vars => TurnFiles'
  BY TurnFilesStep
<1> QED
  BY <1>1, <1>2, TypeCorrect, StagesAlwaysAgree, TurnsAreBehaviours, PTL DEF TurnSpec

\* As long as no two runs hold one name between looking for it and making the
\* file, and no two threads delete one row, no two kept success rows name the
\* same file, with any number of workers and deletions, though every backup may
\* be of the same database within the same second and names are taken again.
THEOREM TurnNamesNeverCollide ==
    ASSUME Calm PROVE TurnSpec => []NamesNeverCollide
<1>1. TurnFiles => NamesNeverCollide
  BY DEF TurnFiles, TurnRun, NamesNeverCollide
<1> QED
  BY <1>1, TurnFilesAlways, PTL

\* Behind every success row then lies the dump that its own run made.
THEOREM TurnSuccessHasItsDump ==
    ASSUME Calm PROVE TurnSpec => []SuccessHasItsDump
<1>1. TurnFiles => SuccessHasItsDump
  BY DEF TurnFiles, TurnRun, SuccessHasItsDump, HasItsDump
<1> QED
  BY <1>1, TurnFilesAlways, PTL

\* Nor does a deletion then remove the file of another backup.
THEOREM TurnDeletesOnlyItsFile ==
    ASSUME Calm PROVE TurnSpec => DeletesOnlyItsFile
<1>1. ASSUME TypeOK, TurnFiles, [Next]_vars, NEW d \in Deleters, NEW n \in Names,
             held[d] = 0, held'[d] # 0, disk[n] # disk'[n]
      PROVE  disk[n] \in {held'[d], Damaged}
  <2>1. PICK e \in doomed[d] :
           /\ e[1] \in Ids /\ held'[d] = e[1]
           /\ \A m \in Names : m # e[2] => disk'[m] = disk[m]
    BY <1>1, OnlyUnlinkTakes, UnlinkTakes
  <2>2. n = e[2] /\ n # NoName /\ rows[e[1]].path = n
    BY <1>1, <2>1, ConstantFacts DEF TurnFiles, TurnDeletions
  <2>3. \A c \in Deleters : held[c] # e[1]
    <3> SUFFICES ASSUME NEW c \in Deleters, held[c] = e[1] PROVE FALSE
      OBVIOUS
    <3>1. c # d /\ \E f \in doomed[c] : f[1] = e[1]
      BY <1>1, <2>1, ConstantFacts DEF TurnFiles, TurnDeletions, Ids
    <3> QED
      BY <2>1, <3>1, <1>1 DEF TurnFiles, InTurn, DeleteRace
  <2> QED
    BY <2>1, <2>2, <2>3, <1>1 DEF TurnFiles, TurnRun
<1>2. TypeOK /\ TurnFiles /\ [Next]_vars =>
        [\A d \in Deleters, n \in Names :
           held[d] = 0 /\ held'[d] # 0 /\ disk[n] # disk'[n] => disk[n] \in {held'[d], Damaged}]_vars
  BY <1>1
<1> QED
  BY <1>2, TypeCorrect, TurnFilesAlways, TurnsAreBehaviours, PTL DEF Spec, DeletesOnlyItsFile

----------------------------------------------------------------------------
(* Retention *)

\* What makes RetentionSparesNewest inductive: each backup that retention still
\* has to delete has a newer success beside it, and a success row only ever
\* leaves (deleted, or failed because its file was missing at verification) once
\* its file was taken, that is, after it was itself in a list, beside a newer
\* one that stays.
Retained ==
    /\ \A d \in Deleters : \A e \in doomed[d] :
          \E newer \in Candidates(Ask[e[1]].conn) : newer > e[1]
    /\ \A d \in Deleters : held[d] # 0 => \E e \in doomed[d] : e[1] = held[d]
    /\ \A b \in Ids :
          /\ rows[b].status = "success"
          /\ \/ pc[b] = "mark"
             \/ pc[b] = "persist" /\ verdict[b] \notin {"valid", "not_verified"}
          => \E d \in Deleters : held[d] = b

\* Retention alone deletes, and a sound file passes the deep check.
RetentionAlone == Admins = {} /\ "deep" \notin Faults

\* A success that leaves the table, or stops being one, was in a list, so one
\* that was in its place before is there after it.
LEMMA NewerStays ==
    ASSUME TypeOK, Retained, NEW b \in Ids,
           NEW x \in Ids, \E d \in Deleters : held[d] = x,
           \A a \in Ids : a # x /\ rows[a].status = "success" => rows'[a].status = "success",
           \E newer \in Candidates(Ask[b].conn) : newer > b
    PROVE  \E newer \in Candidates(Ask[b].conn)' : newer > b
<1>1. PICK newer \in Candidates(Ask[b].conn) : newer > b
  OBVIOUS
<1>2. CASE newer # x
  BY <1>1, <1>2 DEF Candidates
<1>3. CASE newer = x
  <2>1. PICK d \in Deleters : held[d] = x
    OBVIOUS
  <2>2. PICK e \in doomed[d] : e[1] = x
    BY <2>1, ConstantFacts DEF Retained
  <2>3. PICK later \in Candidates(Ask[x].conn) : later > x
    BY <2>1, <2>2 DEF Retained
  <2>4. Ask[x].conn = Ask[b].conn /\ later \in Ids /\ rows[later].status = "success"
    BY <1>1, <1>3, <2>3 DEF Candidates
  <2>5. later # x /\ later > b
    BY <1>1, <1>3, <2>3, <2>4 DEF Ids
  <2>6. later \in Candidates(Ask[b].conn)'
    BY <2>3, <2>4, <2>5 DEF Candidates
  <2> QED
    BY <2>5, <2>6
<1> QED
  BY <1>2, <1>3

LEMMA WorkKeepsRetained ==
    ASSUME Calm, RetentionAlone, TypeOK, StagesAgree, TurnFiles, Retained, NEW b \in Ids, Work(b)
    PROVE  Retained'
<1> USE ConstantFacts DEF Goto, Early, BeforeSuccess, AfterSuccess, store, locals
<1> DEFINE Suspect(a) == /\ rows[a].status = "success"
                         /\ \/ pc[a] = "mark"
                            \/ pc[a] = "persist" /\ verdict[a] \notin {"valid", "not_verified"}
<1>local. /\ UNCHANGED <<doomed, held>>
          /\ \A a \in Ids : a # b => /\ pc'[a] = pc[a] /\ rows'[a] = rows[a] /\ verdict'[a] = verdict[a]
  BY WorkIsLocal
<1>types. pc \in [Ids -> Stages] /\ verdict \in [Ids -> Verdicts]
  BY DEF TypeOK
<1>run. TurnRun(b) /\ RowFitsStage(b) /\ (Suspect(b) => \E d \in Deleters : held[d] = b)
  BY DEF TurnFiles, StagesAgree, Retained
<1>read. \A d \in Deleters : \A e \in doomed[d] : e[1] \in Ids
  BY DoomedIds
<1>1. ASSUME rows[b].status = "success" => rows'[b].status = "success" \/ \E d \in Deleters : held[d] = b,
             Suspect(b)' => \E d \in Deleters : held[d] = b
      PROVE  Retained'
  <2>1. \A d \in Deleters : \A e \in doomed'[d] :
          \E newer \in Candidates(Ask[e[1]].conn)' : newer > e[1]
    <3> SUFFICES ASSUME NEW d \in Deleters, NEW e \in doomed[d]
                 PROVE  \E newer \in Candidates(Ask[e[1]].conn)' : newer > e[1]
      BY <1>local
    <3>1. e[1] \in Ids /\ \E newer \in Candidates(Ask[e[1]].conn) : newer > e[1]
      BY <1>read DEF Retained
    <3>2. CASE \E c \in Deleters : held[c] = b
      <4>1. \A a \in Ids : a # b /\ rows[a].status = "success" => rows'[a].status = "success"
        BY <1>local
      <4> QED
        BY <3>1, <3>2, <4>1, NewerStays
    <3>3. CASE rows[b].status = "success" => rows'[b].status = "success"
      BY <1>local, <3>1, <3>3 DEF Candidates
    <3> QED
      BY <1>1, <3>2, <3>3
  <2>2. \A a \in Ids : Suspect(a)' => \E d \in Deleters : held[d] = a
    BY <1>1, <1>local DEF Retained
  <2> QED
    BY <1>local, <2>1, <2>2 DEF Retained
<1>0. CASE Submit(b)
  BY <1>0, <1>1, <1>types DEF Submit
<1>2. CASE Start(b)
  BY <1>1, <1>2, <1>types DEF Start
<1>3. CASE Dump(b)
  BY <1>1, <1>3, <1>types DEF Dump
<1>4. CASE ChooseName(b)
  BY <1>1, <1>4, <1>types DEF ChooseName
<1>5. CASE MovePart(b)
  BY <1>1, <1>5, <1>types DEF MovePart
<1>6. CASE Replace(b)
  BY <1>1, <1>6, <1>types DEF Replace
<1>7. CASE Record(b)
  <2>1. pc[b] = "record" /\ pc'[b] = "reread"
    BY <1>7, <1>types DEF Record, Calm
  <2> QED
    BY <1>1, <1>run, <2>1 DEF RowFitsStage
<1>8. CASE Reread(b)
  BY <1>1, <1>8, <1>types DEF Reread
<1>9. CASE Verify(b)
  <2>1. /\ UNCHANGED rows /\ pc[b] = "verify" /\ pc'[b] = "persist"
        /\ verdict'[b] \in Answers(b)
    BY <1>9, <1>types DEF Verify, Calm
  <2>2. disk[final[b]] = b \/ rows[b].status # "success" \/ \E d \in Deleters : held[d] = b
    BY <1>run DEF TurnRun
  <2>3. disk[final[b]] = b => verdict'[b] = "valid"
    BY <2>1 DEF Answers, RetentionAlone, NoFile
  <2> QED
    BY <1>1, <2>1, <2>2, <2>3
<1>10. CASE Persist(b)
  <2>1. /\ pc[b] = "persist"
        /\ pc'[b] = IF verdict[b] \in {"valid", "not_verified"} THEN "done" ELSE "mark"
    BY <1>10, <1>types DEF Persist, Calm
  <2>2. rows'[b].status = rows[b].status
    BY <1>10, CheckedRow DEF Persist
  <2> QED
    BY <1>1, <1>run, <2>1, <2>2
<1>11. CASE Cleanup(b)
  <2>1. pc[b] = "cleanup" /\ UNCHANGED rows
    BY <1>11 DEF Cleanup
  <2>2. rows[b].status # "success"
    BY <1>run, <2>1 DEF TurnRun
  <2> QED
    BY <1>1, <2>1, <2>2
<1>12. CASE Mark(b)
  <2>1. pc[b] = "mark" /\ pc'[b] = "done"
    BY <1>12, <1>types DEF Mark, Calm
  <2> QED
    BY <1>1, <1>run, <2>1
<1> QED
  BY <1>0, <1>2, <1>3, <1>4, <1>5, <1>6, <1>7, <1>8, <1>9, <1>10, <1>11, <1>12 DEF Work

LEMMA RetainedStep ==
    ASSUME Calm, RetentionAlone, TypeOK, StagesAgree, TurnFiles, Retained, [Next]_vars
    PROVE  Retained'
<1>read. \A d \in Deleters : \A e \in doomed[d] : e[1] \in Ids
  BY DoomedIds
<1>1. ASSUME NEW b \in Ids, Request(b) PROVE Retained'
  <2>1. rows[b].status = "absent"
    BY <1>1 DEF Request, StagesAgree, RunsAreNumbered, RowFitsStage, TypeOK
  <2>2. /\ UNCHANGED <<verdict, doomed, held>>
        /\ \A a \in Ids : a # b => pc'[a] = pc[a] /\ rows'[a] = rows[a]
        /\ rows'[b].status = "running"
    BY <1>1 DEF Request, Goto, locals, deleting, TypeOK, Started
  <2>3. \A c : Candidates(c)' = Candidates(c)
    BY <2>1, <2>2 DEF Candidates
  <2> QED
    BY <2>2, <2>3 DEF Retained
<1>2. ASSUME NEW b \in Ids, Work(b) PROVE Retained'
  BY <1>2, WorkKeepsRetained
<1>3. ASSUME NEW d \in Reapers, NEW k \in Conns, ListDoomed(d, k) PROVE Retained'
  <2>1. /\ UNCHANGED <<rows, pc, verdict, held>>
        /\ \A e \in doomed'[d] : e[1] \in Candidates(k) /\ \E newer \in Candidates(k) : newer > e[1]
        /\ \A c \in Deleters : c # d => doomed'[c] = doomed[c]
    BY <1>3, ListReads
  <2>2. d \in Deleters /\ doomed[d] = {}
    BY <1>3 DEF ListDoomed, Free, Deleters
  <2>3. \A e \in doomed'[d] : \E newer \in Candidates(Ask[e[1]].conn) : newer > e[1]
    BY <2>1 DEF Candidates
  <2>4. \A c : Candidates(c)' = Candidates(c)
    BY <2>1 DEF Candidates
  <2> QED
    BY <2>1, <2>2, <2>3, <2>4 DEF Retained
<1>4. ASSUME NEW d \in Deleters, Unlink(d) PROVE Retained'
  <2>1. /\ UNCHANGED <<rows, pc, verdict, doomed>> /\ held[d] = 0
        /\ \E e \in doomed[d] : held'[d] = e[1]
        /\ \A c \in Deleters : c # d => held'[c] = held[c]
    BY <1>4, UnlinkTakes
  <2>2. \A c : Candidates(c)' = Candidates(c)
    BY <2>1 DEF Candidates
  <2>3. \A a \in Ids : (\E c \in Deleters : held[c] = a) => \E c \in Deleters : held'[c] = a
    BY <2>1, ConstantFacts
  <2> QED
    BY <2>1, <2>2, <2>3 DEF Retained
<1>5. ASSUME NEW d \in Deleters, RemoveRow(d) PROVE Retained'
  <2>0. PICK h \in Ids : h = held[d]
    BY <1>5, RemoveRowTakes
  <2>1. /\ held'[d] = 0
        /\ \A c \in Deleters : c # d => held'[c] = held[c] /\ doomed'[c] = doomed[c]
        /\ \A a \in Ids : a # h => rows'[a] = rows[a]
        /\ UNCHANGED <<pc, verdict>>
        /\ rows'[h] = Absent /\ doomed'[d] = {e \in doomed[d] : e[1] # h}
    BY <1>5, <2>0, RemoveRowTakes DEF Calm
  <2>2. ASSUME NEW c \in Deleters, NEW e \in doomed[c]
        PROVE  \E newer \in Candidates(Ask[e[1]].conn)' : newer > e[1]
    <3>1. e[1] \in Ids /\ \E newer \in Candidates(Ask[e[1]].conn) : newer > e[1]
      BY <1>read DEF Retained
    <3>2. \A a \in Ids : a # h /\ rows[a].status = "success" => rows'[a].status = "success"
      BY <2>1
    <3> QED
      BY <2>0, <3>1, <3>2, NewerStays
  <2>3. \A a \in Ids : rows'[a].status = "success" => a # h /\ rows'[a] = rows[a]
    BY <2>1 DEF Absent
  <2>4. \A a \in Ids : a # h /\ (\E c \in Deleters : held[c] = a) => \E c \in Deleters : held'[c] = a
    BY <2>0, <2>1
  <2>5. \A c \in Deleters : held'[c] # 0 => \E e \in doomed'[c] : e[1] = held'[c]
    BY <2>1 DEF Retained
  <2>6. \A c \in Deleters : doomed'[c] \subseteq doomed[c]
    BY <2>1
  <2> QED
    BY <2>1, <2>2, <2>3, <2>4, <2>5, <2>6 DEF Retained
<1>6. CASE UNCHANGED <<rows, pc, verdict, doomed, held>>
  BY <1>6 DEF Retained, Candidates
<1>7. ~Crash /\ ~Restart /\ \A d \in Admins : FALSE
  BY DEF Calm, TurnFiles, RetentionAlone, Crash, Restart
<1> QED
  BY <1>1, <1>2, <1>3, <1>4, <1>5, <1>6, <1>7
     DEF Next, Delete, BitRot, Tick, vars, store, locals, deleting

\* When retention removes the file of a scheduled backup, a newer successful
\* one of the same connection exists at that moment, with any number of workers
\* and retentions at once, whatever runs, fails and is asked for between the
\* reading of the list and the removal, if retention alone deletes and no sound
\* file is declared corrupted.
THEOREM NewestSpared ==
    ASSUME Calm, RetentionAlone PROVE TurnSpec => RetentionSparesNewest
<1>1. Init => Retained
  BY DEF Init, Retained
<1>2. TypeOK /\ StagesAgree /\ TurnFiles /\ Retained /\ [Next]_vars => Retained'
  BY RetainedStep
<1>3. ASSUME TypeOK, Retained, [Next]_vars, NEW d \in Reapers, held[d] = 0, held'[d] # 0
      PROVE  \E newer \in Candidates(Ask[held'[d]].conn) : newer > held'[d]
  <2>1. Unlink(d)
    BY <1>3, OnlyUnlinkTakes DEF Deleters
  <2>2. PICK e \in doomed[d] : held'[d] = e[1]
    BY <1>3, <2>1, UnlinkTakes DEF Deleters
  <2> QED
    BY <1>3, <2>2 DEF Retained, Deleters
<1>4. TypeOK /\ Retained /\ [Next]_vars =>
        [\A d \in Reapers : held[d] = 0 /\ held'[d] # 0 =>
            \E newer \in Candidates(Ask[held'[d]].conn) : newer > held'[d]]_vars
  BY <1>3
<1> QED
  BY <1>1, <1>2, <1>4, TypeCorrect, StagesAlwaysAgree, TurnFilesAlways,
     TurnsAreBehaviours, PTL DEF Spec, RetentionSparesNewest

----------------------------------------------------------------------------
(* Verification by request *)

\* What a check may say of a file that is in its place and sound.
Sound == {"valid", "not_verified"} \cup (IF "deep" \in Faults THEN {"invalid"} ELSE {})
InPlace(b) == rows[b].status = "success" /\ disk[final[b]] = b

\* The verdict on a file in its place is true, the one stored and the one that
\* the run is about to store.
RunVerdict(b) ==
    /\ pc[b] \in {"move", "replace", "record"} => final[b] # NoName
    /\ rows[b].status = "success" => rows[b].path = final[b] /\ final[b] # NoName
    /\ pc[b] \in BeforeSuccess => rows[b].verification = "not_verified"
    /\ InPlace(b) => /\ rows[b].verification \in Sound
                     /\ pc[b] = "persist" => verdict[b] \in Sound

\* A .part file holds the dump of a run that has not recorded a success, so a
\* file that was found missing or damaged never comes back.
PartsFit ==
    \A n \in Names, b \in Ids : parts[n] = b =>
        n = final[b] /\ pc[b] \in {"replace", "dead"} /\ rows[b].status # "success"

\* A request holds the name that the row still has, and its answer is true if
\* the file is in its place now.
CheckFits(c) ==
    /\ pc[c.id] \notin Early
    /\ rows[c.id].status = "success" => c.path = final[c.id]
    /\ InPlace(c.id) => c.answer \in Sound \cup {"none"}

ChecksTypeOK ==
    checks \in [Checkers -> {NoCheck} \cup [id : Ids, path : Names \cup {NoName}, row : Rows,
                                            answer : Verdicts \cup {"none"}]]

VerdictsKnown ==
    /\ \A b \in Ids : RunVerdict(b)
    /\ PartsFit
    /\ \A v \in Checkers : checks[v] # NoCheck => CheckFits(checks[v])

\* A run that has met its success, or has failed, stays on its side of it: no
\* step gives it another name, a success or its file back.
LEMMA LateRuns ==
    ASSUME TypeOK, StagesAgree, PartsFit, [Next]_vars, NEW a \in Ids, RunVerdict(a),
           pc[a] \notin Early
    PROVE  /\ pc'[a] \notin Early /\ final'[a] = final[a]
           /\ rows'[a].status = "success" => rows[a].status = "success" /\ rows'[a].path = rows[a].path
           /\ rows[a].status = "success" /\ disk'[final[a]] = a => disk[final[a]] = a
<1> USE ConstantFacts DEF Early, BeforeSuccess, store, locals, deleting
<1> DEFINE Late ==
      /\ pc'[a] \notin Early /\ final'[a] = final[a]
      /\ rows'[a].status = "success" => rows[a].status = "success" /\ rows'[a].path = rows[a].path
      /\ rows[a].status = "success" /\ disk'[final[a]] = a => disk[final[a]] = a
<1>types. /\ a # NoFile /\ a # Damaged
          /\ disk \in [Names -> Contents] /\ parts \in [Names -> Contents]
          /\ pc \in [Ids -> Stages] /\ final \in [Ids -> Names \cup {NoName}]
  BY DEF TypeOK, NoFile, Damaged, Ids
<1>named. rows[a].status = "success" => final[a] \in Names
  BY <1>types DEF RunVerdict
<1>disk. ASSUME \A n \in Names : disk'[n] = a => disk[n] = a
         PROVE  rows[a].status = "success" /\ disk'[final[a]] = a => disk[final[a]] = a
  BY <1>disk, <1>named
<1>1. ASSUME NEW b \in Ids, Request(b) PROVE Late
  <2>1. a # b
    BY <1>1 DEF Request, StagesAgree, RunsAreNumbered, TypeOK
  <2> QED
    BY <1>1, <2>1 DEF Request, Goto, TypeOK
<1>2. ASSUME NEW b \in Ids, Work(b), a # b PROVE Late
  <2>1. pc'[a] = pc[a] /\ rows'[a] = rows[a] /\ final'[a] = final[a]
    BY <1>2, WorkIsLocal
  <2>2. CASE Replace(b)
    <3>1. \A n \in Names : disk'[n] \in {disk[n], parts[n]}
      BY <2>2, <1>types DEF Replace
    <3>2. \A n \in Names : parts[n] = a => rows[a].status # "success"
      BY DEF PartsFit
    <3> QED
      BY <1>named, <2>1, <3>1, <3>2
  <2>3. CASE Cleanup(b)
    <3>1. \A n \in Names : disk'[n] \in {disk[n], NoFile}
      BY <2>3, <1>types DEF Cleanup, RemoveQuietly
    <3> QED
      BY <1>types, <1>disk, <2>1, <3>1
  <2>4. CASE ~Replace(b) /\ ~Cleanup(b)
    <3>1. disk' = disk
      BY <1>2, <2>4 DEF Work, Submit, Start, Dump, ChooseName, MovePart, Record, Reread, Verify, Persist, Mark
    <3> QED
      BY <2>1, <3>1
  <2> QED
    BY <2>2, <2>3, <2>4
<1>3. ASSUME Work(a) PROVE Late
  <2>1. CASE Reread(a)
    BY <1>types, <2>1 DEF Reread, Goto
  <2>2. CASE Verify(a)
    BY <1>types, <2>2 DEF Verify, Goto
  <2>3. CASE Persist(a)
    <3>1. rows'[a].status = rows[a].status /\ rows'[a].path = rows[a].path
      BY <2>3, CheckedRow DEF Persist
    <3> QED
      BY <1>types, <2>3, <3>1 DEF Persist, Goto
  <2>4. CASE Cleanup(a)
    BY <1>types, <2>4 DEF Cleanup, RemoveQuietly, Goto
  <2>5. CASE Mark(a)
    <3>1. rows'[a].status # "success" \/ rows' = rows
      BY <2>5, FailedRow DEF Mark
    <3> QED
      BY <1>types, <2>5, <3>1 DEF Mark, Goto
  <2> QED
    BY <1>3, <2>1, <2>2, <2>3, <2>4, <2>5
       DEF Work, Submit, Start, Dump, ChooseName, MovePart, Replace, Record
<1>4. ASSUME NEW d \in Admins, NEW b \in Ids, Fetch(d, b) PROVE Late
  BY <1>4 DEF Fetch
<1>5. ASSUME NEW d \in Reapers, NEW k \in Conns, ListDoomed(d, k) PROVE Late
  BY <1>5 DEF ListDoomed
<1>6. ASSUME NEW d \in Deleters, Unlink(d) PROVE Late
  <2>1. UNCHANGED <<rows, pc, final>> /\ \A n \in Names : disk'[n] \in {disk[n], NoFile}
    BY <1>6, UnlinkTakes
  <2> QED
    BY <1>types, <1>disk, <2>1
<1>7. ASSUME NEW d \in Deleters, RemoveRow(d) PROVE Late
  <2>1. UNCHANGED <<disk, pc, final>> /\ (rows'[a] = rows[a] \/ rows'[a] = Absent)
    BY <1>7, RemoveRowTakes
  <2> QED
    BY <2>1 DEF Absent
<1>8. ASSUME NEW n \in Names, BitRot(n) PROVE Late
  BY <1>8, <1>types DEF BitRot
<1>9. CASE Crash
  BY <1>9, <1>types DEF Crash
<1>10. CASE Restart
  BY <1>10 DEF Restart, Interrupted, TypeOK, Rows
<1>11. CASE UNCHANGED <<rows, disk, pc, final>>
  BY <1>11
<1> QED
  BY <1>1, <1>2, <1>3, <1>4, <1>5, <1>6, <1>7, <1>8, <1>9, <1>10, <1>11
     DEF Next, Delete, Tick, vars

\* A step that leaves run a alone, or ends it, leaves its verdict true.
LEMMA UntouchedVerdict ==
    ASSUME TypeOK, StagesAgree, PartsFit, [Next]_vars, NEW a \in Ids, RunVerdict(a),
           pc'[a] \in {pc[a], "dead"}, final'[a] = final[a], verdict'[a] = verdict[a],
           \/ rows'[a] = Absent
           \/ /\ rows'[a].path = rows[a].path /\ rows'[a].verification = rows[a].verification
              /\ rows'[a].status \in {rows[a].status, "failed"}
    PROVE  RunVerdict(a)'
<1> USE DEF Early, BeforeSuccess
<1>1. CASE rows'[a] = Absent
  BY <1>1 DEF RunVerdict, InPlace, Absent
<1>2. CASE rows'[a] # Absent
  <2>1. CASE pc[a] \in Early
    <3>1. rows[a].status # "success"
      BY <2>1 DEF StagesAgree, RowFitsStage
    <3> QED
      BY <1>2, <3>1 DEF RunVerdict, InPlace
  <2>2. CASE pc[a] \notin Early
    <3>1. InPlace(a)' => InPlace(a)
      BY <1>2, <2>2, LateRuns DEF InPlace
    <3> QED
      BY <1>2, <2>2, <3>1 DEF RunVerdict, InPlace
  <2> QED
    BY <2>1, <2>2
<1> QED
  BY <1>1, <1>2

LEMMA OwnVerdict ==
    ASSUME TypeOK, StagesAgree, PartsFit, [Next]_vars, NEW a \in Ids, RunVerdict(a), Work(a)
    PROVE  RunVerdict(a)'
<1> USE ConstantFacts DEF Goto, Early, BeforeSuccess, store, locals
<1>types. /\ pc \in [Ids -> Stages] /\ final \in [Ids -> Names \cup {NoName}]
          /\ verdict \in [Ids -> Verdicts] /\ rows \in [Ids -> Rows]
  BY DEF TypeOK
<1>early. pc[a] \in Early => rows[a].status # "success"
  BY DEF StagesAgree, RowFitsStage
<1>late. pc[a] \notin Early => (InPlace(a)' => InPlace(a))
  BY LateRuns DEF InPlace
<1>0. CASE Submit(a)
  BY <1>0, <1>types, <1>early DEF Submit, RunVerdict, InPlace
<1>1. CASE Start(a)
  BY <1>1, <1>types, <1>early DEF Start, RunVerdict, InPlace
<1>2. CASE Dump(a)
  BY <1>2, <1>types, <1>early DEF Dump, RunVerdict, InPlace
<1>3. CASE ChooseName(a)
  <2>1. \A v \in Unused(a) : Variant(a, v) # NoName
    BY DEF Unused, Variant, Names, TypeOK
  <2>2. final'[a] # NoName \/ pc'[a] = "cleanup"
    BY <1>3, <1>types, <2>1 DEF ChooseName
  <2>3. UNCHANGED rows /\ pc[a] = "name" /\ pc'[a] \in {"move", "cleanup"}
    BY <1>3, <1>types DEF ChooseName
  <2> QED
    BY <1>early, <2>2, <2>3 DEF RunVerdict, InPlace
<1>4. CASE MovePart(a)
  BY <1>4, <1>types, <1>early DEF MovePart, RunVerdict, InPlace
<1>5. CASE Replace(a)
  <2>1. UNCHANGED <<rows, final>> /\ pc[a] = "replace" /\ pc'[a] \in {"record", "cleanup"}
    BY <1>5, <1>types DEF Replace
  <2> QED
    BY <1>early, <2>1 DEF RunVerdict, InPlace
<1>6. CASE Record(a)
  <2>1. UNCHANGED <<final, disk>> /\ pc[a] = "record" /\ pc'[a] \in {"reread", "cleanup"}
    BY <1>6, <1>types DEF Record
  <2>2. /\ rows'[a].verification = rows[a].verification
        /\ rows'[a].status = "success" => rows'[a].path = final[a]
    <3>1. CASE SetRow(a, [rows[a] EXCEPT !.status = "success", !.path = final[a]])
      BY <3>1, RecordedRow
    <3>2. CASE UNCHANGED rows
      BY <2>1, <1>early, <3>2
    <3> QED
      BY <1>6, <3>1, <3>2 DEF Record
  <2>3. "not_verified" \in Sound
    BY DEF Sound
  <2> QED
    BY <2>1, <2>2, <2>3 DEF RunVerdict, InPlace
<1>7. CASE Reread(a)
  <2>1. UNCHANGED <<rows, final>> /\ pc[a] = "reread"
    BY <1>7 DEF Reread
  <2>2. \/ pc'[a] \in {"verify", "raised", "cleanup"}
        \/ pc'[a] = "persist" /\ verdict'[a] = "not_verified"
    BY <1>7, <1>types DEF Reread
  <2>3. "not_verified" \in Sound
    BY DEF Sound
  <2> QED
    BY <1>late, <2>1, <2>2, <2>3 DEF RunVerdict, InPlace
<1>8. CASE Verify(a)
  <2>1. UNCHANGED <<rows, final, disk>> /\ pc[a] = "verify"
    BY <1>8 DEF Verify
  <2>2. pc'[a] = "cleanup" \/ (pc'[a] = "persist" /\ verdict'[a] \in Answers(a))
    BY <1>8, <1>types DEF Verify
  <2>3. disk[final[a]] = a => Answers(a) \subseteq Sound
    BY DEF Answers, Sound, NoFile
  <2> QED
    BY <1>late, <2>1, <2>2, <2>3 DEF RunVerdict, InPlace
<1>9. CASE Persist(a)
  <2>1. UNCHANGED <<final, disk>> /\ pc[a] = "persist" /\ pc'[a] \in {"done", "mark", "cleanup"}
    BY <1>9, <1>types DEF Persist
  <2>2. rows'[a].status = rows[a].status /\ rows'[a].path = rows[a].path
    BY <1>9, CheckedRow DEF Persist
  <2>3. rows'[a].verification \in {rows[a].verification, verdict[a]}
    BY <1>9, <1>types DEF Persist, SetRow, Rows
  <2> QED
    BY <2>1, <2>2, <2>3 DEF RunVerdict, InPlace
<1>10. CASE Cleanup(a)
  <2>1. UNCHANGED <<rows, final>> /\ pc[a] = "cleanup" /\ pc'[a] = "mark"
    BY <1>10, <1>types DEF Cleanup
  <2> QED
    BY <1>late, <2>1 DEF RunVerdict, InPlace
<1>11. CASE Mark(a)
  <2>1. UNCHANGED final /\ pc[a] = "mark" /\ pc'[a] \in {"done", "lost"}
    BY <1>11, <1>types DEF Mark
  <2>2. rows'[a].status # "success" \/ rows' = rows
    BY <1>11, FailedRow DEF Mark
  <2> QED
    BY <1>late, <2>1, <2>2 DEF RunVerdict, InPlace
<1> QED
  BY <1>0, <1>1, <1>2, <1>3, <1>4, <1>5, <1>6, <1>7, <1>8, <1>9, <1>10, <1>11 DEF Work

LEMMA RunVerdictStep ==
    ASSUME TypeOK, StagesAgree, PartsFit, [Next]_vars, NEW a \in Ids, RunVerdict(a)
    PROVE  RunVerdict(a)'
<1>1. ASSUME NEW b \in Ids, Request(b) PROVE RunVerdict(a)'
  <2>1. CASE a = b
    BY <1>1, <2>1 DEF Request, Goto, locals, TypeOK, RunVerdict, InPlace, Started
  <2>2. CASE a # b
    BY <1>1, <2>2, UntouchedVerdict DEF Request, Goto, locals, TypeOK
  <2> QED
    BY <2>1, <2>2
<1>2. ASSUME NEW b \in Ids, Work(b) PROVE RunVerdict(a)'
  BY <1>2, OwnVerdict, WorkIsLocal, UntouchedVerdict
<1>3. ASSUME NEW d \in Admins, NEW b \in Ids, Fetch(d, b) PROVE RunVerdict(a)'
  BY <1>3, UntouchedVerdict DEF Fetch, store, locals
<1>4. ASSUME NEW d \in Reapers, NEW k \in Conns, ListDoomed(d, k) PROVE RunVerdict(a)'
  BY <1>4, UntouchedVerdict DEF ListDoomed, store, locals
<1>5. ASSUME NEW d \in Deleters, Unlink(d) PROVE RunVerdict(a)'
  BY <1>5, UntouchedVerdict DEF Unlink, locals
<1>6. ASSUME NEW d \in Deleters, RemoveRow(d) PROVE RunVerdict(a)'
  <2>1. UNCHANGED <<pc, final, verdict>> /\ (rows'[a] = rows[a] \/ rows'[a] = Absent)
    BY <1>6, RemoveRowTakes
  <2> QED
    BY <2>1, UntouchedVerdict
<1>7. CASE Crash
  BY <1>7, UntouchedVerdict DEF Crash, store, locals, TypeOK
<1>8. CASE Restart
  <2>1. /\ rows'[a].path = rows[a].path /\ rows'[a].verification = rows[a].verification
        /\ rows'[a].status \in {rows[a].status, "failed"}
    BY <1>8 DEF Restart, Interrupted, TypeOK, Rows
  <2> QED
    BY <1>8, <2>1, UntouchedVerdict DEF Restart, locals
<1>9. CASE UNCHANGED <<rows, pc, final, verdict>>
  BY <1>9, UntouchedVerdict
<1> QED
  BY <1>1, <1>2, <1>3, <1>4, <1>5, <1>6, <1>7, <1>8, <1>9
     DEF Next, Delete, BitRot, Tick, vars, store, locals

LEMMA PartsFitStep ==
    ASSUME TypeOK, StagesAgree, PartsFit, \A b \in Ids : RunVerdict(b), [Next]_vars
    PROVE  PartsFit'
<1> USE ConstantFacts DEF Early, BeforeSuccess
<1>types. /\ disk \in [Names -> Contents] /\ parts \in [Names -> Contents]
          /\ pc \in [Ids -> Stages] /\ final \in [Ids -> Names \cup {NoName}]
          /\ NoFile \notin Ids /\ Damaged \notin Ids
  BY DEF TypeOK, NoFile, Damaged, Ids
<1>1. SUFFICES ASSUME NEW n \in Names, NEW a \in Ids, parts'[n] = a
               PROVE  n = final'[a] /\ pc'[a] \in {"replace", "dead"} /\ rows'[a].status # "success"
  BY DEF PartsFit
<1> DEFINE Fits == n = final'[a] /\ pc'[a] \in {"replace", "dead"} /\ rows'[a].status # "success"
<1>3. ASSUME parts[n] = a, final'[a] = final[a], pc'[a] \in {pc[a], "dead"},
             rows'[a].status \in {rows[a].status, "absent", "failed"}
      PROVE  Fits
  BY <1>3 DEF PartsFit
<1>4. ASSUME NEW b \in Ids, Request(b) PROVE Fits
  <2>1. pc[b] = "idle"
    BY <1>4 DEF Request, StagesAgree, RunsAreNumbered, TypeOK
  <2>2. parts[n] = a /\ a # b
    BY <1>1, <1>4, <2>1 DEF Request, PartsFit
  <2> QED
    BY <1>3, <1>4, <2>2 DEF Request, Goto, locals, TypeOK
<1>5. ASSUME NEW b \in Ids, Work(b), a # b PROVE Fits
  <2>1. parts[n] = a
    BY <1>1, <1>5, <1>types DEF Work, Submit, Start, Dump, ChooseName, MovePart, Replace, Record, Reread,
          Verify, Persist, Cleanup, Mark, store
  <2> QED
    BY <1>3, <1>5, <2>1, WorkIsLocal
<1>6. ASSUME Work(a) PROVE Fits
  <2>1. CASE MovePart(a)
    <3>1. final[a] \in Names /\ pc[a] = "move" /\ UNCHANGED <<rows, final>>
      BY <2>1, <1>types DEF MovePart, RunVerdict, locals
    <3>2. \A m \in Names : parts[m] # a
      BY <3>1 DEF PartsFit
    <3>3. n = final[a] /\ pc'[a] = "replace"
      BY <1>1, <1>types, <2>1, <3>1, <3>2 DEF MovePart, Goto
    <3>4. rows[a].status # "success"
      BY <3>1 DEF StagesAgree, RowFitsStage
    <3> QED
      BY <3>1, <3>3, <3>4
  <2>2. CASE Replace(a)
    <3>1. \A m \in Names : parts[m] = a => m = final[a]
      BY DEF PartsFit
    <3> QED
      BY <1>1, <1>types, <2>2, <3>1 DEF Replace
  <2>3. CASE ~MovePart(a) /\ ~Replace(a)
    <3>1. parts' = parts /\ pc[a] \notin {"replace", "dead"}
      BY <1>6, <2>3 DEF Work, Submit, Start, Dump, ChooseName, Record, Reread, Verify, Persist, Cleanup, Mark, store
    <3> QED
      BY <1>1, <3>1 DEF PartsFit
  <2> QED
    BY <2>1, <2>2, <2>3
<1>7. ASSUME NEW d \in Deleters, RemoveRow(d) PROVE Fits
  <2>1. UNCHANGED <<parts, pc, final>> /\ (rows'[a] = rows[a] \/ rows'[a] = Absent)
    BY <1>7, RemoveRowTakes
  <2> QED
    BY <1>1, <1>3, <2>1 DEF Absent
<1>8. CASE Crash
  BY <1>1, <1>3, <1>8 DEF Crash, store, locals, TypeOK
<1>9. CASE Restart
  BY <1>1, <1>3, <1>9 DEF Restart, Interrupted, locals, TypeOK, Rows
<1>10. CASE UNCHANGED <<rows, parts, pc, final>>
  BY <1>1, <1>3, <1>10
<1>11. ASSUME NEW d \in Deleters, Unlink(d) PROVE UNCHANGED <<rows, parts, pc, final>>
  BY <1>11, UnlinkTakes
<1> QED
  BY <1>4, <1>5, <1>6, <1>7, <1>8, <1>9, <1>10, <1>11
     DEF Next, Delete, Fetch, ListDoomed, BitRot, Tick, vars, store, locals

\* Storing the answer changes the verification column of one row, if it is
\* still there, and nothing else that the pipeline knows.
LEMMA StoreVerdictWrites ==
    ASSUME TypeOK, ChecksTypeOK, NEW v \in Checkers, StoreVerdict(v)
    PROVE  /\ checks[v] # NoCheck /\ checks[v].answer # "none" /\ checks[v].id \in Ids
           /\ checks' = [checks EXCEPT ![v] = NoCheck]
           /\ rows' \in [Ids -> Rows]
           /\ UNCHANGED <<nextId, disk, parts, clock, up, pc, base, final, verdict, doomed, held, cut>>
           /\ \A a \in Ids : rows'[a].status = rows[a].status /\ rows'[a].path = rows[a].path
           /\ \A a \in Ids : a # checks[v].id => rows'[a] = rows[a]
           /\ rows'[checks[v].id].verification
                 \in {rows[checks[v].id].verification, checks[v].answer}
<1> DEFINE c == checks[v]
<1>1. c # NoCheck /\ c.answer # "none" /\ SetRow(c.id, [rows[c.id] EXCEPT !.verification = c.answer])
  BY DEF StoreVerdict, RowNow
<1>2. c.id \in Ids /\ c.answer \in Verdicts
  BY <1>1 DEF ChecksTypeOK
<1>3. /\ [rows[c.id] EXCEPT !.verification = c.answer] \in Rows
      /\ rows \in [Ids -> Rows]
  BY <1>2 DEF TypeOK, Rows
<1>4. rows' \in [Ids -> Rows]
  BY <1>1, <1>2, <1>3, SetRowType
<1>5. /\ \A a \in Ids : a # c.id => rows'[a] = rows[a]
      /\ rows'[c.id] = rows[c.id] \/ rows'[c.id] = [rows[c.id] EXCEPT !.verification = c.answer]
  BY <1>1, <1>2, <1>3 DEF SetRow
<1> QED
  BY <1>1, <1>2, <1>3, <1>4, <1>5 DEF StoreVerdict, locals, deleting, Rows

\* What is true of the pipeline alone stays true beside verify requests: they
\* write neither a status nor a path.
LEMMA VerdictsDisturbNothing ==
    ASSUME TypeOK, ChecksTypeOK, NEW v \in Checkers, StoreVerdict(v)
    PROVE  /\ TypeOK'
           /\ StagesAgree => StagesAgree'
           /\ OwnersKnown => OwnersKnown'
<1>1. /\ rows' \in [Ids -> Rows]
      /\ UNCHANGED <<nextId, disk, parts, clock, up, pc, base, final, verdict, doomed, held, cut>>
      /\ \A a \in Ids : rows'[a].status = rows[a].status /\ rows'[a].path = rows[a].path
  BY StoreVerdictWrites
<1>2. TypeOK'
  BY <1>1 DEF TypeOK
<1>3. StagesAgree => StagesAgree'
  BY <1>1 DEF StagesAgree, RowFitsStage, RunsAreNumbered, DeletionsAreNumbered
<1>5. ASSUME OwnersKnown PROVE OwnersKnown'
  <2>1. \A d \in Deleters : \A e \in doomed'[d] :
           e[1] \in cut' \/ (pc'[e[1]] \notin Early /\ rows'[e[1]].path \in {NoName, e[2]})
    <3> SUFFICES ASSUME NEW d \in Deleters, NEW e \in doomed[d], e[1] \notin cut
                 PROVE  pc'[e[1]] \notin Early /\ rows'[e[1]].path \in {NoName, e[2]}
      BY <1>1
    <3>1. e[1] \in Ids
      BY DoomedIds
    <3> QED
      BY <1>1, <1>5, <3>1 DEF OwnersKnown
  <2>2. \A n \in Names, a \in Ids : Owns(a, n) => Owns(a, n)'
    BY <1>1 DEF Owns
  <2> QED
    BY <1>1, <1>5, <2>1, <2>2 DEF OwnersKnown
<1> QED
  BY <1>2, <1>3, <1>5

\* A verify request is what its thread holds: nothing, or a row as it was read.
LEMMA ChecksTypeStep ==
    ASSUME TypeOK, ChecksTypeOK, [VerifyNext]_vvars PROVE ChecksTypeOK'
<1>1. CASE Serve
  BY <1>1 DEF Serve, ChecksTypeOK
<1>2. ASSUME NEW v \in Checkers, NEW b \in Ids, AskForCheck(v, b) PROVE ChecksTypeOK'
  <2>1. rows[b] \in Rows /\ rows[b].path \in Names \cup {NoName}
    BY DEF TypeOK, Rows
  <2> QED
    BY <1>2, <2>1 DEF AskForCheck, ChecksTypeOK
<1>3. ASSUME NEW v \in Checkers, CheckFile(v) PROVE ChecksTypeOK'
  <2>1. AnswersFor(checks[v]) \subseteq Verdicts
    BY DEF AnswersFor, Verdicts
  <2>2. \/ \E answer \in AnswersFor(checks[v]) : checks' = [checks EXCEPT ![v].answer = answer]
        \/ checks' = [checks EXCEPT ![v] = NoCheck]
    BY <1>3 DEF CheckFile
  <2> QED
    BY <1>3, <2>1, <2>2 DEF CheckFile, ChecksTypeOK
<1>4. ASSUME NEW v \in Checkers, StoreVerdict(v) PROVE ChecksTypeOK'
  BY <1>4, StoreVerdictWrites DEF ChecksTypeOK
<1>5. CASE UNCHANGED vvars
  BY <1>5 DEF vvars, ChecksTypeOK
<1> QED
  BY <1>1, <1>2, <1>3, <1>4, <1>5 DEF VerifyNext

\* Each step beside verify requests is one of the pipeline's or stores a verdict.
LEMMA VerifySteps ==
    ASSUME [VerifyNext]_vvars
    PROVE  [Next]_vars \/ \E v \in Checkers : StoreVerdict(v)
BY DEF VerifyNext, vvars, Serve, AskForCheck, CheckFile

LEMMA VerifyTypesAndStages ==
    VerifySpec => []TypeOK /\ []ChecksTypeOK /\ []StagesAgree
<1>1. VerifyInit => TypeOK /\ ChecksTypeOK /\ StagesAgree
  <2>1. Init => TypeOK
    BY ConstantFacts, BoundsAssumption DEF Init, TypeOK, Contents, NoFile, Stages, Verdicts
  <2>2. Init => StagesAgree
    BY ConstantFacts DEF Init, StagesAgree, RowFitsStage, RunsAreNumbered, DeletionsAreNumbered,
          BeforeSuccess, AfterSuccess, Absent, Ids
  <2> QED
    BY <2>1, <2>2 DEF VerifyInit, ChecksTypeOK
<1>2. TypeOK /\ ChecksTypeOK /\ StagesAgree /\ [VerifyNext]_vvars
        => TypeOK' /\ ChecksTypeOK' /\ StagesAgree'
  BY ChecksTypeStep, VerifySteps, TypeOKStep, StagesAgreeStep, VerdictsDisturbNothing
<1> QED
  BY <1>1, <1>2, PTL DEF VerifySpec

\* A row is only offered for verification once its run is past its success.
LEMMA VerdictsKnownStep ==
    ASSUME ~CheckAnyRow, TypeOK, ChecksTypeOK, StagesAgree, VerdictsKnown, [VerifyNext]_vvars
    PROVE  VerdictsKnown'
<1>checks. \A v \in Checkers : checks[v] # NoCheck => checks[v].id \in Ids
  BY DEF ChecksTypeOK
<1>1. ASSUME [Next]_vars PROVE (\A b \in Ids : RunVerdict(b)') /\ PartsFit'
  BY <1>1, RunVerdictStep, PartsFitStep DEF VerdictsKnown
<1>2. ASSUME [Next]_vars, NEW v \in Checkers, checks[v] # NoCheck, checks'[v] = checks[v]
      PROVE  CheckFits(checks[v])'
  <2>1. CheckFits(checks[v]) /\ checks[v].id \in Ids /\ pc[checks[v].id] \notin Early
    BY <1>2, <1>checks DEF VerdictsKnown, CheckFits
  <2>2. RunVerdict(checks[v].id) /\ PartsFit
    BY <2>1 DEF VerdictsKnown
  <2> QED
    BY <1>2, <2>1, <2>2, LateRuns DEF CheckFits, InPlace
<1>3. CASE Serve
  <2>1. \A v \in Checkers : checks'[v] \in {checks[v], NoCheck}
    BY <1>3 DEF Serve, ChecksTypeOK
  <2> QED
    BY <1>1, <1>2, <1>3, <2>1 DEF Serve, VerdictsKnown
<1>4. ASSUME NEW v \in Checkers, NEW b \in Ids, AskForCheck(v, b) PROVE VerdictsKnown'
  <2>1. UNCHANGED vars /\ rows[b].status = "success"
    BY <1>4 DEF AskForCheck, Offered
  <2>2. /\ checks'[v].id = b /\ checks'[v].path = rows[b].path /\ checks'[v].answer = "none"
        /\ \A w \in Checkers : w # v => checks'[w] = checks[w]
    BY <1>4 DEF AskForCheck, ChecksTypeOK
  <2>3. pc[b] \notin Early
    BY <2>1 DEF StagesAgree, RowFitsStage, Early, BeforeSuccess
  <2>4. CheckFits(checks[v])'
    BY <2>1, <2>2, <2>3 DEF CheckFits, VerdictsKnown, RunVerdict, vars
  <2>5. \A w \in Checkers : w # v /\ checks'[w] # NoCheck => CheckFits(checks[w])'
    BY <1>2, <2>1, <2>2
  <2> QED
    BY <1>1, <2>1, <2>4, <2>5 DEF VerdictsKnown
<1>5. ASSUME NEW v \in Checkers, CheckFile(v) PROVE VerdictsKnown'
  <2> DEFINE c == checks[v]
  <2>1. UNCHANGED vars /\ c # NoCheck
    BY <1>5 DEF CheckFile
  <2>2. CASE checks' = [checks EXCEPT ![v] = NoCheck]
    <3>1. \A w \in Checkers : checks'[w] # NoCheck => checks[w] # NoCheck /\ checks'[w] = checks[w]
      BY <2>2 DEF ChecksTypeOK
    <3> QED
      BY <1>1, <1>2, <2>1, <3>1 DEF VerdictsKnown
  <2>3. ASSUME NEW answer \in AnswersFor(c), checks' = [checks EXCEPT ![v].answer = answer]
        PROVE  VerdictsKnown'
    <3>1. /\ checks'[v].id = c.id /\ checks'[v].path = c.path /\ checks'[v].answer = answer
          /\ \A w \in Checkers : w # v => checks'[w] = checks[w]
      BY <2>1, <2>3 DEF ChecksTypeOK
    <3>2. c.id \in Ids /\ CheckFits(c) /\ RunVerdict(c.id)
      BY <1>checks, <2>1 DEF VerdictsKnown
    <3>3. InPlace(c.id) => answer \in Sound
      BY <2>3, <3>2, ConstantFacts DEF InPlace, CheckFits, RunVerdict, AnswersFor, Sound, NoFile
    <3>4. CheckFits(checks[v])'
      BY <2>1, <3>1, <3>2, <3>3 DEF CheckFits, InPlace, vars
    <3>5. \A w \in Checkers : w # v /\ checks'[w] # NoCheck => CheckFits(checks[w])'
      BY <1>2, <2>1, <3>1
    <3> QED
      BY <1>1, <2>1, <3>4, <3>5 DEF VerdictsKnown
  <2> QED
    BY <1>5, <2>2, <2>3 DEF CheckFile
<1>6. ASSUME NEW v \in Checkers, StoreVerdict(v) PROVE VerdictsKnown'
  <2> DEFINE c == checks[v]
  <2>0. PICK b \in Ids : b = c.id
    BY <1>6, StoreVerdictWrites
  <2>1. /\ c # NoCheck /\ c.answer # "none"
        /\ checks' = [checks EXCEPT ![v] = NoCheck]
        /\ UNCHANGED <<disk, parts, up, pc, final, verdict>>
        /\ \A a \in Ids : rows'[a].status = rows[a].status /\ rows'[a].path = rows[a].path
        /\ \A a \in Ids : a # b => rows'[a] = rows[a]
        /\ rows'[b].verification \in {rows[b].verification, c.answer}
    BY <1>6, <2>0, StoreVerdictWrites
  <2>2. CheckFits(c) /\ RunVerdict(b)
    BY <2>0, <2>1 DEF VerdictsKnown
  <2>3. \A a \in Ids : InPlace(a)' <=> InPlace(a)
    BY <2>1 DEF InPlace
  <2>4. RunVerdict(b)'
    BY <2>0, <2>1, <2>2, <2>3 DEF RunVerdict, CheckFits, Early
  <2>5. \A a \in Ids : a # b => RunVerdict(a)'
    BY <2>1, <2>3 DEF RunVerdict, VerdictsKnown
  <2>6. PartsFit'
    BY <2>1 DEF PartsFit, VerdictsKnown
  <2>7. \A w \in Checkers : checks'[w] # NoCheck => checks'[w] = checks[w] /\ checks[w] # NoCheck
    BY <2>1 DEF ChecksTypeOK
  <2>8. \A w \in Checkers : checks'[w] # NoCheck => CheckFits(checks[w])'
    BY <1>checks, <2>1, <2>3, <2>7 DEF VerdictsKnown, CheckFits
  <2> QED
    BY <2>4, <2>5, <2>6, <2>8 DEF VerdictsKnown
<1>7. CASE UNCHANGED vvars
  BY <1>1, <1>2, <1>7 DEF vvars, VerdictsKnown
<1> QED
  BY <1>3, <1>4, <1>5, <1>6, <1>7 DEF VerifyNext

\* No row says of a success whose file is in its place and sound that it is
\* missing or corrupted, however long a verification takes, whatever is deleted,
\* crashes and fails in the meantime, and whatever takes the same name.
THEOREM VerdictsAreTrue ==
    ASSUME ~CheckAnyRow PROVE VerifySpec => []VerdictIsTrue
<1>1. VerifyInit => VerdictsKnown
  BY ConstantFacts DEF VerifyInit, Init, VerdictsKnown, RunVerdict, InPlace, PartsFit, CheckFits,
        Absent, BeforeSuccess, NoFile
<1>2. TypeOK /\ ChecksTypeOK /\ StagesAgree /\ VerdictsKnown /\ [VerifyNext]_vvars => VerdictsKnown'
  BY VerdictsKnownStep
<1>3. VerdictsKnown => VerdictIsTrue
  BY DEF VerdictsKnown, RunVerdict, InPlace, Sound, VerdictIsTrue
<1> QED
  BY <1>1, <1>2, <1>3, VerifyTypesAndStages, PTL DEF VerifySpec

\* Beside verify requests too, no file is without a row ...
THEOREM NoVerifiedFileIsOrphaned ==
    ASSUME Faults \cap {"stuck", "crash"} = {}
    PROVE  VerifySpec => []NoOrphanFile
<1>1. VerifyInit => OwnersKnown
  BY ConstantFacts DEF VerifyInit, Init, OwnersKnown, Absent, Early, Unnamed, BeforeSuccess
<1>2. TypeOK /\ ChecksTypeOK /\ StagesAgree /\ OwnersKnown /\ [VerifyNext]_vvars => OwnersKnown'
  BY VerifySteps, OwnersKnownStep, VerdictsDisturbNothing
<1>3. OwnersKnown => NoOrphanFile
  BY DEF OwnersKnown, Owns, NoOrphanFile
<1> QED
  BY <1>1, <1>2, <1>3, VerifyTypesAndStages, PTL DEF VerifySpec

\* ... and a failed row stays failed: a late verdict does not revive it.
THEOREM VerifiedRowsStayFailed == VerifySpec => FailedIsFinal
<1>1. /\ TypeOK /\ ChecksTypeOK /\ StagesAgree /\ TypeOK' /\ StagesAgree' /\ [VerifyNext]_vvars
      => [\A b \in Ids : rows[b].status = "failed" => rows'[b].status \in {"failed", "absent"}]_vars
  BY VerifySteps, FailedStays, StoreVerdictWrites
<1> QED
  BY <1>1, VerifyTypesAndStages, PTL DEF VerifySpec, FailedIsFinal

=============================================================================
