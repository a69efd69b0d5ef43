------------------------ MODULE RestoreServiceProofs ------------------------
(***************************************************************************)
(* Theorems about RestoreService, for every number of restores, backups    *)
(* and tables, every engine and every set of faults.                       *)
(***************************************************************************)
EXTENDS RestoreService, TLAPS

USE DEF replay

Stages == Active \cup {"idle", "done", "dead", "lost", "orphan"}

LEMMA ContentFacts ==
    /\ NoDatabase \in Contents /\ Empty \in Contents
    /\ Unset # NoDatabase /\ \A c \in Contents : c # Unset
    /\ [t \in Tables |-> "live"] \in Contents
BY UnsetAssumption DEF Contents, Empty, Values

LEMMA SourceFacts == \A r \in Restores : Source[r] \in Backups
BY RestoreAssumption

LEMMA WritingFacts ==
    /\ Nothing \in Writings
    /\ \A T \in SUBSET Tables : \A w \in [T -> Values] : w \in Writings
<1>1. Nothing \in [{} -> Values]
  BY DEF Nothing
<1> QED
  BY <1>1 DEF Writings

\* What the restore tools write is content of a database.
LEMMA WithType ==
    ASSUME TypeOK, NEW written \in Writings
    PROVE  With(written) \in [Tables -> Values]
<1>1. PICK T \in SUBSET Tables : written \in [T -> Values]
  BY DEF Writings
<1>2. target # NoDatabase => target \in [Tables -> Values]
  BY DEF TypeOK, Contents
<1> QED
  BY <1>1, <1>2 DEF With, Values

LEMMA WriteType ==
    ASSUME TypeOK, NEW r \in Restores, Write(r)
    PROVE  /\ target' \in Contents /\ todo' \in [Restores -> SUBSET Tables]
           /\ pending' \in [Restores -> Writings]
<1>1. PICK t \in todo[r] :
        /\ todo' = [todo EXCEPT ![r] = @ \ {t}]
        /\ \/ /\ UNCHANGED target
              /\ pending' = [pending EXCEPT ![r] = [u \in DOMAIN @ \cup {t} |->
                                                       IF u = t THEN Payload(r) ELSE @[u]]]
           \/ /\ UNCHANGED pending
              /\ target' = With([u \in {t} |-> Payload(r)])
  BY DEF Write
<1>2. Payload(r) \in Values /\ t \in Tables
  BY <1>1, SourceFacts DEF Payload, Values, TypeOK
<1>3. todo' \in [Restores -> SUBSET Tables]
  BY <1>1 DEF TypeOK
<1>4. With([u \in {t} |-> Payload(r)]) \in Contents
  <2>1. [u \in {t} |-> Payload(r)] \in [{t} -> Values] /\ {t} \in SUBSET Tables
    BY <1>2
  <2> QED BY <2>1, WritingFacts, WithType DEF Contents
<1>5. [u \in DOMAIN pending[r] \cup {t} |-> IF u = t THEN Payload(r) ELSE pending[r][u]] \in Writings
  <2>1. PICK T \in SUBSET Tables : pending[r] \in [T -> Values]
    BY DEF TypeOK, Writings
  <2>2. [u \in T \cup {t} |-> IF u = t THEN Payload(r) ELSE pending[r][u]] \in [T \cup {t} -> Values]
    BY <1>2, <2>1
  <2>3. T \cup {t} \in SUBSET Tables /\ DOMAIN pending[r] = T
    BY <1>2, <2>1
  <2> QED BY <2>2, <2>3, WritingFacts
<1>6. pending' \in [Restores -> Writings]
  BY <1>1, <1>5 DEF TypeOK
<1> QED
  BY <1>1, <1>3, <1>4, <1>6 DEF TypeOK

\* So it is when the transaction ends, in either way.
LEMMA EndType ==
    ASSUME TypeOK, NEW r \in Restores, RollBack(r) \/ Commit(r)
    PROVE  target' \in Contents /\ pending' \in [Restores -> Writings]
<1>1. With(pending[r]) \in Contents
  BY WithType DEF TypeOK, Contents
<1> QED
  BY <1>1, WritingFacts DEF RollBack, Commit, TypeOK

\* What Connect leaves in the target: what it found, or an empty database.
LEMMA ConnectFacts ==
    ASSUME TypeOK, NEW r \in Restores, Connect(r)
    PROVE  /\ target' \in Contents
           /\ target' # target => target = NoDatabase /\ target' = Empty
           /\ prior[r] = Unset => prior' = [prior EXCEPT ![r] = target]
           /\ prior[r] # Unset => prior' = prior
           /\ \/ /\ pc' = [pc EXCEPT ![r] = "apply"] /\ todo' = [todo EXCEPT ![r] = Dumped]
                 /\ pending' = [pending EXCEPT ![r] = Nothing]
              \/ pc' = [pc EXCEPT ![r] = "fail"] /\ todo' = todo /\ pending' = pending
<1>1. target' \in {target, IF target = NoDatabase /\ Adapter.creates THEN Empty ELSE target}
  BY DEF Connect
<1>2. /\ prior[r] = Unset => prior' = [prior EXCEPT ![r] = target]
      /\ prior[r] # Unset => prior' = prior
  BY DEF Connect, Remember
<1>3. \/ /\ pc' = [pc EXCEPT ![r] = "apply"] /\ todo' = [todo EXCEPT ![r] = Dumped]
         /\ pending' = [pending EXCEPT ![r] = Nothing]
      \/ pc' = [pc EXCEPT ![r] = "fail"] /\ todo' = todo /\ pending' = pending
  BY DEF Connect, Goto
<1> QED
  BY <1>1, <1>2, <1>3, ContentFacts DEF TypeOK

\* A crash stops every thread; some tools go on.
LEMMA CrashFacts ==
    ASSUME TypeOK, Crash
    PROVE  /\ pc' \in [Restores -> Stages]
           /\ \A r \in Restores :
                 \/ pc[r] = "apply" /\ pc'[r] = "orphan"
                 \/ pc[r] \in Active /\ pc'[r] = "dead"
                 \/ pc[r] \notin Active /\ pc'[r] = pc[r]
           /\ pending' = [r \in Restores |-> IF pc'[r] = "orphan" THEN pending[r] ELSE Nothing]
<1>1. PICK outlives \in SUBSET {r \in Restores : pc[r] = "apply" /\ engine # "sqlite"} :
          /\ pc' = [r \in Restores |-> IF r \in outlives THEN "orphan"
                                       ELSE IF pc[r] \in Active THEN "dead" ELSE pc[r]]
          /\ pending' = [r \in Restores |-> IF pc'[r] = "orphan" THEN pending[r] ELSE Nothing]
  BY DEF Crash
<1> QED
  BY <1>1 DEF TypeOK, Stages, Active

LEMMA TypeInit == Init => TypeOK
<1> SUFFICES ASSUME Init PROVE TypeOK
  OBVIOUS
<1>1. target \in Contents
  BY ContentFacts DEF Init
<1>3. pending \in [Restores -> Writings]
  BY WritingFacts DEF Init
<1>2. kept \in [Restores -> Contents \cup {Unset}] /\ prior \in [Restores -> Contents \cup {Unset}]
  BY DEF Init
<1> QED
  BY <1>1, <1>2, <1>3 DEF Init, TypeOK, Active

LEMMA TypeNext == TypeOK /\ [Next]_vars => TypeOK'
<1> SUFFICES ASSUME TypeOK, [Next]_vars PROVE TypeOK'
  OBVIOUS
<1>1. ASSUME NEW r \in Restores, Prepare(r) PROVE TypeOK'
  BY <1>1 DEF Unhandled, Prepare, Goto, Step, TypeOK, Active, case, store
<1>2. ASSUME NEW r \in Restores, Begin(r) PROVE TypeOK'
  BY <1>2 DEF Unhandled, Begin, Goto, Step, May, TypeOK, Active, case, store
<1>3. ASSUME NEW r \in Restores, Check(r) PROVE TypeOK'
  BY <1>3 DEF Check, Goto, Step, TypeOK, Active, case, store
<1>4. ASSUME NEW r \in Restores, Snapshot(r) PROVE TypeOK'
  <2>1. kept' \in [Restores -> Contents \cup {Unset}]
    BY <1>4 DEF Snapshot, TypeOK
  <2> QED BY <1>4, <2>1 DEF Snapshot, Goto, Step, May, TypeOK, Active, case, store
<1>5. ASSUME NEW r \in Restores, StoreCode(r) PROVE TypeOK'
  BY <1>5 DEF StoreCode, Goto, Step, May, TypeOK, Active, case, store
<1>6. ASSUME NEW r \in Restores, Unpack(r) PROVE TypeOK'
  BY <1>6 DEF Unpack, Goto, Step, TypeOK, Active, case, store
<1>7. ASSUME NEW r \in Restores, Connect(r) PROVE TypeOK'
  <2>1. Dumped \in SUBSET Tables
    BY RestoreAssumption
  <2>2. prior' \in [Restores -> Contents \cup {Unset}]
    BY <1>7, ConnectFacts DEF TypeOK
  <2>3. pc' \in [Restores -> Stages] /\ todo' \in [Restores -> SUBSET Tables]
    BY <1>7, <2>1, ConnectFacts DEF TypeOK, Stages, Active
  <2>4. pending' \in [Restores -> Writings]
    BY <1>7, ConnectFacts, WritingFacts DEF TypeOK
  <2> QED
    BY <1>7, <2>2, <2>3, <2>4, ConnectFacts DEF Connect, TypeOK, Stages, case, store
<1>8. ASSUME NEW r \in Restores, Apply(r) PROVE TypeOK'
  <2>1. /\ target' \in Contents /\ todo' \in [Restores -> SUBSET Tables]
        /\ pending' \in [Restores -> Writings]
    BY <1>8, WriteType, EndType DEF Apply, TypeOK
  <2> QED BY <1>8, <2>1 DEF Apply, Goto, ClientFails, TypeOK, Active, case, store
<1>9. ASSUME NEW r \in Restores, Verify(r) PROVE TypeOK'
  BY <1>9 DEF Verify, Goto, Step, May, TypeOK, Active, case, store
<1>10. ASSUME NEW r \in Restores, Finish(r) PROVE TypeOK'
  BY <1>10 DEF Finish, Goto, Step, May, TypeOK, Active, case, store
<1>11. ASSUME NEW r \in Restores, Fail(r) PROVE TypeOK'
  BY <1>11 DEF Unhandled, Fail, Goto, Step, TypeOK, Active, case, store
<1>12. ASSUME NEW r \in Restores, Orphan(r) PROVE TypeOK'
  <2>1. /\ target' \in Contents /\ todo' \in [Restores -> SUBSET Tables]
        /\ pending' \in [Restores -> Writings]
    BY <1>12, WriteType, EndType DEF Orphan, TypeOK
  <2> QED BY <1>12, <2>1 DEF Orphan, Goto, TypeOK, Active, case, store
<1>13. ASSUME NEW b \in Backups, DeleteFile(b) \/ DeleteRow(b) \/ Rot(b) PROVE TypeOK'
  BY <1>13 DEF DeleteFile, DeleteRow, Rot, TypeOK, case, store
<1>14. CASE Crash
  <2>1. pending' \in [Restores -> Writings]
    BY <1>14, CrashFacts, WritingFacts DEF TypeOK
  <2> QED BY <1>14, <2>1, CrashFacts DEF Crash, TypeOK, Stages, case, store
<1>15. CASE Restart
  BY <1>15 DEF Restart, Interrupted, TypeOK, case, store
<1>16. CASE UNCHANGED vars
  BY <1>16 DEF vars, TypeOK, case, store
<1> QED
  BY <1>1, <1>2, <1>3, <1>4, <1>5, <1>6, <1>7, <1>8, <1>9, <1>10, <1>11, <1>12, <1>13, <1>14,
     <1>15, <1>16 DEF Next, Work

\* Every variable keeps its type: Spec => []TypeOK.
THEOREM TypeCorrect == Spec => []TypeOK
BY TypeInit, TypeNext, PTL DEF Spec

----------------------------------------------------------------------------
(* Rows and threads *)

\* On a stopped server nobody is in execute_restore.
Threads ==
    /\ RunningHasThread
    /\ ~up => \A r \in Restores : pc[r] \notin Active

LEMMA ThreadsNext ==
    ASSUME TypeOK, Threads, [Next]_vars
    PROVE  Threads'
<1> USE DEF TypeOK, Threads, RunningHasThread
<1>2. ASSUME NEW r \in Restores, Prepare(r) PROVE Threads'
  BY <1>2 DEF Unhandled, Prepare, Step, Goto, Active
<1>3. ASSUME NEW r \in Restores, Begin(r) \/ Check(r) \/ Unpack(r) \/ StoreCode(r) \/ Snapshot(r)
      PROVE  Threads'
  BY <1>3 DEF Unhandled, Begin, Check, Unpack, StoreCode, Snapshot, Step, Goto, May, Active
<1>4. ASSUME NEW r \in Restores, Connect(r) PROVE Threads'
  <2>1. up /\ pc[r] = "connect" /\ UNCHANGED <<row, up>>
    BY <1>4 DEF Connect, Step
  <2> QED BY <1>4, <2>1, ConnectFacts DEF Active
<1>5. ASSUME NEW r \in Restores, Apply(r) PROVE Threads'
  <2>1. up /\ pc[r] = "apply" /\ UNCHANGED <<row, up>>
    BY <1>5 DEF Apply, Step
  <2>2. pc' = pc \/ \E stage \in Active : pc' = [pc EXCEPT ![r] = stage]
    BY <1>5 DEF Apply, Goto, ClientFails, Active
  <2> QED BY <2>1, <2>2 DEF Active
<1>6. ASSUME NEW r \in Restores, Verify(r) PROVE Threads'
  BY <1>6 DEF Verify, Step, Goto, May, Active
<1>7. ASSUME NEW r \in Restores, Finish(r) \/ Fail(r) PROVE Threads'
  BY <1>7 DEF Unhandled, Finish, Fail, Step, Goto, May, Active
<1>8. ASSUME NEW r \in Restores, Orphan(r) PROVE Threads'
  <2>1. pc[r] = "orphan" /\ UNCHANGED <<row, up>> /\ (pc' = pc \/ pc' = [pc EXCEPT ![r] = "dead"])
    BY <1>8 DEF Orphan, Goto
  <2> QED BY <2>1 DEF Active
<1>9. CASE Crash
  BY <1>9, CrashFacts DEF Crash, Active
<1>10. CASE Restart
  <2>1. \A r \in Restores : row'[r] # "running"
    BY <1>10 DEF Restart, Interrupted
  <2> QED BY <1>10, <2>1 DEF Restart
<1>11. CASE UNCHANGED <<row, pc, up>>
  BY <1>11
<1> QED
  BY <1>2, <1>3, <1>4, <1>5, <1>6, <1>7, <1>8, <1>9, <1>10, <1>11
     DEF Next, Work, DeleteFile, DeleteRow, Rot, vars

\* A restore is shown as running as long as a thread works on it, and after it
\* only if the update of its own handler raised: Spec => []RunningHasThread.
THEOREM RunningRestoresHaveThreads == Spec => []RunningHasThread
<1>1. Init => TypeOK /\ Threads
  BY TypeInit DEF Init, Threads, RunningHasThread, Active
<1>2. TypeOK /\ Threads /\ [Next]_vars => TypeOK' /\ Threads'
  BY TypeNext, ThreadsNext
<1>3. Threads => RunningHasThread
  BY DEF Threads
<1> QED
  BY <1>1, <1>2, <1>3, PTL DEF Spec

----------------------------------------------------------------------------
(* Engines that replay a dump at once *)

Atomic == engine \in {"sqlite", "postgresql"}

\* The open transaction of a tool has what the tool is done with, from its file.
PendingOf(r) ==
    /\ todo[r] \subseteq Dumped
    /\ pc[r] \in {"apply", "orphan"} =>
          /\ DOMAIN pending[r] = Dumped \ todo[r]
          /\ \A t \in DOMAIN pending[r] : pending[r][t] \in {Source[r], "damaged"}

\* So the tables of the dump agree.
AllAgree == (Atomic => \A r \in Restores : PendingOf(r)) /\ AllOrNothing

\* The steps of a tool.
LEMMA PendingWrite ==
    ASSUME TypeOK, Atomic, NEW r \in Restores, PendingOf(r), pc[r] \in {"apply", "orphan"},
           Write(r), UNCHANGED engine
    PROVE  PendingOf(r)' /\ target' = target
<1>1. Adapter.atOnce
  BY DEF Atomic, Adapter, SQLiteAdapter, PostgresAdapter
<1>2. PICK t \in todo[r] :
        /\ todo' = [todo EXCEPT ![r] = @ \ {t}] /\ UNCHANGED target
        /\ pending' = [pending EXCEPT ![r] = [u \in DOMAIN @ \cup {t} |->
                                                 IF u = t THEN Payload(r) ELSE @[u]]]
  BY <1>1 DEF Write
<1>3. /\ todo'[r] = todo[r] \ {t}
      /\ pending'[r] = [u \in DOMAIN pending[r] \cup {t} |->
                           IF u = t THEN Payload(r) ELSE pending[r][u]]
  BY <1>2 DEF TypeOK
<1>4. Payload(r) \in {Source[r], "damaged"}
  BY DEF Payload
<1>5. DOMAIN pending'[r] = Dumped \ todo'[r]
  BY <1>2, <1>3 DEF PendingOf
<1>6. \A u \in DOMAIN pending'[r] : pending'[r][u] \in {Source[r], "damaged"}
  BY <1>3, <1>4 DEF PendingOf
<1> QED
  BY <1>2, <1>3, <1>5, <1>6 DEF PendingOf

LEMMA PendingCommit ==
    ASSUME TypeOK, Atomic, NEW r \in Restores, PendingOf(r), pc[r] \in {"apply", "orphan"},
           todo[r] = {}, Commit(r)
    PROVE  \A t \in Dumped : target'[t] \in {Source[r], "damaged"}
<1>1. Adapter.atOnce
  BY DEF Atomic, Adapter, SQLiteAdapter, PostgresAdapter
<1>2. target' = With(pending[r])
  BY <1>1 DEF Commit
<1> QED
  BY <1>2, RestoreAssumption DEF With, PendingOf

LEMMA ToolAgrees ==
    ASSUME TypeOK, AllAgree, NEW r \in Restores, pc[r] \in {"apply", "orphan"}, UNCHANGED engine,
           \/ Write(r) /\ UNCHANGED pc
           \/ /\ RollBack(r) \/ (todo[r] = {} /\ Commit(r))
              /\ UNCHANGED todo
              /\ \E stage : stage \notin {"apply", "orphan"} /\ Goto(r, stage)
    PROVE  AllAgree'
<1> SUFFICES ASSUME Atomic PROVE AllAgree'
  BY DEF AllAgree, Atomic, AllOrNothing
<1>1. \A s \in Restores : PendingOf(s)
  BY DEF AllAgree
<1>2. ASSUME NEW s \in Restores, s # r PROVE PendingOf(s)'
  <2>1. pc'[s] = pc[s] /\ todo'[s] = todo[s] /\ pending'[s] = pending[s]
    BY <1>2 DEF Write, RollBack, Commit, Goto, TypeOK
  <2> QED BY <1>1, <2>1 DEF PendingOf
<1>3. CASE Write(r) /\ UNCHANGED pc
  BY <1>1, <1>2, <1>3, PendingWrite DEF AllAgree, AllOrNothing
<1>4. CASE /\ RollBack(r) \/ (todo[r] = {} /\ Commit(r))
           /\ UNCHANGED todo
           /\ \E stage : stage \notin {"apply", "orphan"} /\ Goto(r, stage)
  <2>1. PendingOf(r)'
    <3>1. pc'[r] \notin {"apply", "orphan"}
      BY <1>4 DEF Goto, TypeOK
    <3> QED BY <1>1, <1>4, <3>1 DEF PendingOf
  <2>2. CASE RollBack(r)
    BY <1>2, <2>1, <2>2 DEF RollBack, AllAgree, AllOrNothing
  <2>3. CASE todo[r] = {} /\ Commit(r)
    <3>1. \A t \in Dumped : target'[t] \in {Source[r], "damaged"}
      BY <1>1, <2>3, PendingCommit
    <3> QED BY <1>2, <2>1, <3>1 DEF AllAgree, AllOrNothing
  <2> QED BY <1>4, <2>2, <2>3
<1> QED BY <1>3, <1>4

LEMMA AllAgreeNext == TypeOK /\ AllAgree /\ [Next]_vars => AllAgree'
<1> SUFFICES ASSUME TypeOK, AllAgree, [Next]_vars PROVE AllAgree'
  OBVIOUS
<1>1. engine' = engine
  BY DEF Next, Work, Prepare, Begin, Check, Snapshot, StoreCode, Unpack, Connect, Apply, Verify,
     Finish, Fail, Orphan, DeleteFile, DeleteRow, Rot, Crash, Restart, vars, case
<1>2. ASSUME UNCHANGED <<target, todo, pending>>,
             \A r \in Restores : pc'[r] = pc[r] \/ pc'[r] \notin {"apply", "orphan"}
      PROVE  AllAgree'
  <2>1. Atomic' = Atomic /\ (AllOrNothing' <=> AllOrNothing)
    BY <1>1, <1>2 DEF Atomic, AllOrNothing
  <2>2. \A r \in Restores : PendingOf(r) => PendingOf(r)'
    BY <1>2 DEF PendingOf
  <2> QED BY <2>1, <2>2 DEF AllAgree
<1>3. ASSUME NEW r \in Restores, Connect(r) PROVE AllAgree'
  <2>1. ASSUME Atomic, NEW s \in Restores PROVE PendingOf(s)'
    <3>1. CASE s # r
      BY <1>3, <2>1, <3>1, ConnectFacts DEF AllAgree, PendingOf, TypeOK
    <3>2. CASE s = r
      <4>1. \/ pc'[r] = "fail" /\ todo'[r] = todo[r]
            \/ todo'[r] = Dumped /\ pending'[r] = Nothing
        BY <1>3, ConnectFacts DEF TypeOK
      <4> QED BY <2>1, <3>2, <4>1 DEF AllAgree, PendingOf, Nothing
    <3> QED BY <3>1, <3>2
  <2>2. AllOrNothing'
    <3>1. CASE target' = target
      BY <1>1, <3>1 DEF AllAgree, AllOrNothing
    <3>2. CASE target' = Empty
      BY <3>2, RestoreAssumption DEF AllOrNothing, Empty
    <3> QED BY <1>3, <3>1, <3>2, ConnectFacts
  <2> QED BY <1>1, <2>1, <2>2 DEF AllAgree, Atomic
<1>4. ASSUME NEW r \in Restores, Apply(r) PROVE AllAgree'
  BY <1>1, <1>4, ToolAgrees DEF Apply, ClientFails, Step
<1>5. ASSUME NEW r \in Restores, Orphan(r) PROVE AllAgree'
  BY <1>1, <1>5, ToolAgrees DEF Orphan
<1>6. CASE Crash
  <2>1. UNCHANGED <<target, todo>>
    BY <1>6 DEF Crash
  <2>2. ASSUME Atomic, NEW r \in Restores PROVE PendingOf(r)'
    BY <1>6, <2>1, <2>2, CrashFacts DEF AllAgree, PendingOf, Active
  <2> QED BY <1>1, <2>1, <2>2 DEF AllAgree, Atomic, AllOrNothing
<1>7. ASSUME NEW r \in Restores,
             Prepare(r) \/ Begin(r) \/ Check(r) \/ Snapshot(r) \/ StoreCode(r) \/ Unpack(r)
             \/ Verify(r) \/ Finish(r) \/ Fail(r)
      PROVE  AllAgree'
  <2>1. UNCHANGED <<target, todo, pending>>
    BY <1>7 DEF Prepare, Begin, Check, Snapshot, StoreCode, Unpack, Verify, Finish, Fail
  <2>2. \E stage : stage \notin {"apply", "orphan"} /\ Goto(r, stage)
    BY <1>7 DEF Unhandled, Prepare, Begin, Check, Snapshot, StoreCode, Unpack, Verify, Finish, Fail, May
  <2> QED BY <1>2, <2>1, <2>2 DEF Goto, TypeOK
<1> QED
  BY <1>2, <1>3, <1>4, <1>5, <1>6, <1>7 DEF Next, Work, DeleteFile, DeleteRow, Rot, Restart, vars

\* With SQLite and PostgreSQL, whatever fails and however restores overlap, the
\* tables of a dump are restored together or not at all: Spec => []AllOrNothing.
THEOREM RestoredTogether == Spec => []AllOrNothing
<1>1. Init => TypeOK /\ AllAgree
  <2> SUFFICES ASSUME Init PROVE AllAgree
    BY TypeInit
  <2> QED BY RestoreAssumption DEF Init, AllAgree, PendingOf, AllOrNothing
<1>2. AllAgree => AllOrNothing
  BY DEF AllAgree
<1> QED
  BY <1>1, <1>2, TypeNext, AllAgreeNext, PTL DEF Spec

----------------------------------------------------------------------------
(* Restores that come one after the other *)

Working(r) == pc[r] \in Active \cup {"orphan"}
OneAtATime == \A r, s \in Restores : Working(r) /\ Working(s) => r = s

\* Nothing is remembered of the target, and no code stored, before its time.
NotYetOf(r) ==
    /\ pc[r] \in {"idle", "queued", "check", "snapshot", "code", "unpack", "connect"} =>
           prior[r] = Unset
    /\ pc[r] \in {"idle", "queued", "check", "snapshot", "code"} => ~code[r]
    /\ pc[r] \in {"idle", "queued", "check", "snapshot"} => kept[r] = Unset
    /\ pc[r] = "code" \/ code[r] => kept[r] # Unset
    /\ pc[r] \in {"unpack", "connect", "apply", "verify", "finish"} => code[r] \/ kept[r] = Unset

\* From the snapshot to the first change the safety backup is that of the target.
SetAsideOf(r) ==
    Safety[r] =>
        /\ pc[r] = "code" => kept[r] = target
        /\ pc[r] \in {"unpack", "connect"} => target = NoDatabase \/ (code[r] /\ kept[r] = target)
        /\ pc[r] = "fail" /\ ~code[r] /\ kept[r] # Unset => kept[r] = target
        /\ prior[r] \notin {Unset, NoDatabase} => code[r] /\ kept[r] = prior[r]

SetAside == \A r \in Restores : NotYetOf(r) /\ SetAsideOf(r)

SerialInv == TypeOK /\ OneAtATime /\ SetAside

LEMMA OneAtATimeNext ==
    ASSUME ~Overlap, TypeOK, OneAtATime, [Next]_vars
    PROVE  OneAtATime'
<1> USE DEF TypeOK, OneAtATime, Working
<1>1. ASSUME NEW r \in Restores, Prepare(r) PROVE OneAtATime'
  BY <1>1 DEF Unhandled, Prepare, Goto, Active
<1>2. ASSUME NEW r \in Restores, NEW stage, Working(r), pc' = [pc EXCEPT ![r] = stage]
      PROVE  OneAtATime'
  BY <1>2
<1>3. ASSUME NEW r \in Restores, Work(r) PROVE Working(r)
  BY <1>3 DEF Work, Begin, Check, Snapshot, StoreCode, Unpack, Connect, Apply, Verify, Finish, Fail,
     Step, Active
<1>4. ASSUME NEW r \in Restores, Work(r) PROVE pc' = pc \/ \E stage : pc' = [pc EXCEPT ![r] = stage]
  <2>1. CASE Begin(r) \/ Check(r) \/ Snapshot(r) \/ StoreCode(r) \/ Unpack(r)
    BY <2>1 DEF Unhandled, Begin, Check, Snapshot, StoreCode, Unpack, May, Goto
  <2>2. CASE Connect(r)
    BY <2>2 DEF Connect, Goto
  <2>3. CASE Apply(r) \/ Verify(r) \/ Finish(r) \/ Fail(r)
    BY <2>3 DEF Unhandled, Apply, ClientFails, Verify, Finish, Fail, May, Goto
  <2> QED BY <1>4, <2>1, <2>2, <2>3 DEF Work
<1>5. ASSUME NEW r \in Restores, Orphan(r) PROVE OneAtATime'
  BY <1>5 DEF Orphan, Goto
<1>6. CASE Crash
  BY <1>6, CrashFacts DEF Active
<1>7. CASE UNCHANGED pc
  BY <1>7
<1> QED
  BY <1>1, <1>2, <1>3, <1>4, <1>5, <1>6, <1>7 DEF Next, DeleteFile, DeleteRow, Rot, Restart, vars

\* A change of the target by one restore does not concern the others.
LEMMA OthersRest ==
    ASSUME OneAtATime, NEW r \in Restores, Working(r), NEW s \in Restores, s # r
    PROVE  pc[s] \notin {"code", "unpack", "connect", "fail"}
BY DEF OneAtATime, Working, Active

LEMMA SerialNext ==
    ASSUME ~Overlap, SerialInv, [Next]_vars
    PROVE  SetAside'
<1>1. TypeOK /\ OneAtATime /\ \A r \in Restores : NotYetOf(r) /\ SetAsideOf(r)
  BY DEF SerialInv, SetAside
<1>2. target # Unset
  BY <1>1, ContentFacts DEF TypeOK
\* A restore that no step concerns, when the target stays or it does not care.
<1>3. ASSUME NEW s \in Restores, pc'[s] = pc[s], prior'[s] = prior[s], kept'[s] = kept[s],
             code'[s] = code[s],
             target' = target \/ pc[s] \notin {"code", "unpack", "connect", "fail"}
      PROVE  NotYetOf(s)' /\ SetAsideOf(s)'
  <2>1. NotYetOf(s)'
    BY <1>1, <1>3 DEF NotYetOf
  <2>2. SetAsideOf(s)'
    BY <1>1, <1>3 DEF SetAsideOf
  <2> QED BY <2>1, <2>2
<1>4. CASE UNCHANGED <<target, code, kept, prior, pc>>
  BY <1>3, <1>4 DEF SetAside
<1>5. ASSUME NEW r \in Restores, NEW s \in Restores, s # r, Prepare(r) \/ Work(r) \/ Orphan(r)
      PROVE  /\ pc'[s] = pc[s] /\ prior'[s] = prior[s] /\ kept'[s] = kept[s] /\ code'[s] = code[s]
             /\ target' = target \/ pc[s] \notin {"code", "unpack", "connect", "fail"}
  <2>1. CASE Prepare(r) \/ Begin(r) \/ Check(r) \/ Snapshot(r) \/ StoreCode(r) \/ Unpack(r)
    BY <1>1, <1>5, <2>1 DEF Unhandled, Prepare, Begin, Check, Snapshot, StoreCode, Unpack, May, Goto, TypeOK
  <2>2. CASE Connect(r)
    <3>1. pc[r] = "connect"
      BY <2>2 DEF Connect, Step
    <3>2. UNCHANGED <<kept, code>>
      BY <2>2 DEF Connect
    <3> QED
      BY <1>1, <1>5, <2>2, <3>1, <3>2, ConnectFacts, OthersRest DEF TypeOK, Working, Active
  <2>3. CASE Apply(r)
    <3>1. pc[r] = "apply" /\ UNCHANGED <<kept, code, prior>>
      BY <2>3 DEF Apply, Step
    <3>2. pc'[s] = pc[s]
      BY <1>1, <1>5, <2>3 DEF Apply, ClientFails, Goto, TypeOK
    <3> QED
      BY <1>1, <1>5, <3>1, <3>2, OthersRest DEF Working, Active
  <2>4. CASE Orphan(r)
    <3>1. pc[r] = "orphan" /\ UNCHANGED <<kept, code, prior>>
      BY <2>4 DEF Orphan
    <3>2. pc'[s] = pc[s]
      BY <1>1, <1>5, <2>4 DEF Orphan, Goto, TypeOK
    <3> QED
      BY <1>1, <1>5, <3>1, <3>2, OthersRest DEF Working
  <2>5. CASE Verify(r) \/ Finish(r) \/ Fail(r)
    BY <1>1, <1>5, <2>5 DEF Unhandled, Verify, Finish, Fail, May, Goto, TypeOK
  <2> QED
    BY <1>5, <2>1, <2>2, <2>3, <2>4, <2>5 DEF Work
<1>6. ASSUME NEW r \in Restores, Prepare(r) \/ Work(r) \/ Orphan(r)
      PROVE  NotYetOf(r)' /\ SetAsideOf(r)'
  <2> USE DEF TypeOK, NotYetOf, SetAsideOf
  <2>1. CASE Prepare(r)
    BY <1>1, <2>1 DEF Unhandled, Prepare, Step, Goto
  <2>2. CASE Begin(r)
    BY <1>1, <2>2 DEF Unhandled, Begin, Step, Goto, May
  <2>3. CASE Check(r)
    BY <1>1, <2>3 DEF Check, Step, Goto
  <2>4. CASE Snapshot(r)
    BY <1>1, <1>2, <2>4 DEF Snapshot, Step, Goto, May
  <2>5. CASE StoreCode(r)
    BY <1>1, <2>5 DEF StoreCode, Step, Goto, May
  <2>6. CASE Unpack(r)
    BY <1>1, <2>6 DEF Unpack, Step, Goto
  <2>7. CASE Connect(r)
    <3>1. pc[r] = "connect" /\ UNCHANGED <<kept, code>>
      BY <2>7 DEF Connect, Step
    <3>2. prior'[r] = target /\ pc'[r] \in {"apply", "fail"}
      BY <1>1, <2>7, <3>1, ConnectFacts
    <3> QED
      BY <1>1, <1>2, <3>1, <3>2
  <2>8. CASE Apply(r)
    <3>1. pc[r] = "apply" /\ UNCHANGED <<kept, code, prior>>
      BY <2>8 DEF Apply, Step
    <3>2. pc'[r] \in {"apply", "verify", "fail"}
      BY <1>1, <2>8, <3>1 DEF Apply, ClientFails, Goto
    <3> QED
      BY <1>1, <3>1, <3>2
  <2>9. CASE Orphan(r)
    <3>1. pc[r] = "orphan" /\ UNCHANGED <<kept, code, prior>> /\ pc'[r] \in {"orphan", "dead"}
      BY <1>1, <2>9 DEF Orphan, Goto
    <3> QED
      BY <1>1, <3>1
  <2>10. CASE Verify(r)
    BY <1>1, <2>10 DEF Verify, Step, Goto, May
  <2>11. CASE Finish(r)
    BY <1>1, <2>11 DEF Finish, Step, Goto, May
  <2>12. CASE Fail(r)
    BY <1>1, <2>12 DEF Unhandled, Fail, Step, Goto
  <2> QED
    BY <1>6, <2>1, <2>2, <2>3, <2>4, <2>5, <2>6, <2>7, <2>8, <2>9, <2>10, <2>11, <2>12 DEF Work
<1>7. ASSUME NEW r \in Restores, Prepare(r) \/ Work(r) \/ Orphan(r)
      PROVE  SetAside'
  BY <1>3, <1>5, <1>6, <1>7 DEF SetAside
<1>8. CASE Crash
  <2>1. UNCHANGED <<target, code, kept, prior>>
    BY <1>8 DEF Crash
  <2>2. \A r \in Restores : pc'[r] = pc[r] \/ pc'[r] \in {"orphan", "dead"}
    BY <1>1, <1>8, CrashFacts
  <2>3. ASSUME NEW r \in Restores PROVE NotYetOf(r)' /\ SetAsideOf(r)'
    BY <1>1, <2>1, <2>2 DEF NotYetOf, SetAsideOf
  <2> QED BY <2>3 DEF SetAside
<1> QED
  BY <1>4, <1>7, <1>8 DEF Next, DeleteFile, DeleteRow, Rot, Restart, vars

LEMMA SerialInit == Init => SerialInv
<1> SUFFICES ASSUME Init PROVE OneAtATime /\ SetAside
  BY TypeInit DEF SerialInv
<1>1. OneAtATime
  BY DEF Init, OneAtATime, Working, Active
<1>2. SetAside
  BY DEF Init, SetAside, NotYetOf, SetAsideOf
<1> QED BY <1>1, <1>2

LEMMA SerialStep == ~Overlap => (SerialInv /\ [Next]_vars => SerialInv')
BY TypeNext, OneAtATimeNext, SerialNext DEF SerialInv

\* What a restore with a safety backup has overwritten is named by its row, when
\* restores come one after the other, whatever fails, crashes and goes on without
\* the server: Spec => []OverwrittenIsKept.
THEOREM OverwrittenStaysKept == ~Overlap => (Spec => []OverwrittenIsKept)
<1> SUFFICES ASSUME ~Overlap PROVE Spec => []OverwrittenIsKept
  OBVIOUS
<1>1. SerialInv => OverwrittenIsKept
  BY DEF SerialInv, SetAside, SetAsideOf, OverwrittenIsKept
<1> QED
  BY <1>1, SerialInit, SerialStep, PTL DEF Spec

----------------------------------------------------------------------------
(* The contract with the owner of the target *)

Saved == {kept[r] : r \in {s \in Restores : code[s]}}
Changing == \E r \in Restores : pc[r] \in {"apply", "orphan"}

LEMMA ContractStep ==
    ASSUME ~Overlap, \A r \in Restores : Safety[r], SerialInv, SerialInv', [Next]_vars
    PROVE  [Contract!ContractNext]_<<target, Saved, Changing>>
<1>1. TypeOK /\ OneAtATime /\ (\A r \in Restores : NotYetOf(r) /\ SetAsideOf(r)) /\ target' \in Contents
  BY DEF SerialInv, SetAside, TypeOK
<1> DEFINE Goal == \/ UNCHANGED <<target, Saved, Changing>>
                   \/ target' = target /\ Saved' = Saved \cup {target} /\ Changing' = Changing
                   \/ ~Changing /\ ~Changing' /\ target = NoDatabase /\ Saved' = Saved
                   \/ ~Changing /\ Changing' /\ target \in Saved \cup {NoDatabase} /\ Saved' = Saved
                   \/ Changing /\ Saved' = Saved
<1>2. ASSUME Goal PROVE [Contract!ContractNext]_<<target, Saved, Changing>>
  <2>1. Changing \in BOOLEAN /\ Changing' \in BOOLEAN
    BY DEF Changing
  <2> QED
    BY <1>1, <1>2, <2>1 DEF Contract!ContractNext, Contract!SetAside, Contract!Create, Contract!Open,
       Contract!Change, Contract!Close, Saved, Changing
<1>3. UNCHANGED <<kept, code>> => Saved' = Saved
  BY DEF Saved
<1>4. UNCHANGED pc => Changing' = Changing
  BY DEF Changing
<1>5. ASSUME NEW r \in Restores, Working(r)
      PROVE  Changing <=> pc[r] \in {"apply", "orphan"}
  BY <1>1, <1>5 DEF Changing, Working, OneAtATime, Active
<1>6. ASSUME NEW r \in Restores, NEW stage, pc' = [pc EXCEPT ![r] = stage],
             pc[r] \notin {"apply", "orphan"}, stage \notin {"apply", "orphan"}
      PROVE  Changing' = Changing
  BY <1>1, <1>6 DEF Changing, TypeOK
<1>7. ASSUME NEW r \in Restores, Prepare(r) \/ Begin(r) \/ Check(r) \/ Unpack(r) \/ Verify(r) \/ Finish(r)
      PROVE  Goal
  <2>1. UNCHANGED <<target, kept, code>>
    BY <1>7 DEF Prepare, Begin, Check, Unpack, Verify, Finish
  <2>2. Changing' = Changing
    BY <1>6, <1>7 DEF Unhandled, Prepare, Begin, Check, Unpack, Verify, Finish, Step, May, Goto
  <2> QED BY <1>3, <2>1, <2>2
<1>8. ASSUME NEW r \in Restores, Snapshot(r) PROVE Goal
  <2>1. UNCHANGED <<target, code>> /\ pc[r] = "snapshot"
    BY <1>8 DEF Snapshot, Step
  <2>2. Changing' = Changing
    BY <1>6, <1>8 DEF Snapshot, Step, May, Goto
  <2>3. \A s \in Restores : code[s] => kept'[s] = kept[s]
    BY <1>1, <1>8, <2>1 DEF Snapshot, NotYetOf, TypeOK
  <2> QED BY <2>1, <2>2, <2>3 DEF Saved
<1>9. ASSUME NEW r \in Restores, StoreCode(r) PROVE Goal
  <2>1. UNCHANGED <<target, kept>> /\ kept[r] = target /\ pc[r] = "code"
    BY <1>1, <1>9 DEF StoreCode, Step, SetAsideOf
  <2>2. Changing' = Changing
    BY <1>6, <1>9 DEF StoreCode, Step, May, Goto
  <2>3. code' = [code EXCEPT ![r] = TRUE] \/ code' = code
    BY <1>9 DEF StoreCode
  <2>4. Saved' = Saved \/ Saved' = Saved \cup {target}
    BY <1>1, <2>1, <2>3 DEF Saved, TypeOK
  <2> QED BY <2>1, <2>2, <2>4
<1>10. ASSUME NEW r \in Restores, Connect(r) PROVE Goal
  <2>1. UNCHANGED <<kept, code>> /\ pc[r] = "connect"
    BY <1>10 DEF Connect, Step
  <2>2. ~Changing
    BY <1>5, <2>1 DEF Working, Active
  <2>3. target \in Saved \cup {NoDatabase}
    BY <1>1, <2>1 DEF SetAsideOf, Saved
  <2>4. target' = target \/ target = NoDatabase
    BY <1>1, <1>10, ConnectFacts
  <2>5. Saved' = Saved
    BY <1>3, <2>1
  <2>6. CASE Changing'
    BY <2>2, <2>3, <2>5, <2>6
  <2>7. CASE ~Changing' /\ target = NoDatabase
    BY <2>2, <2>5, <2>7
  <2>8. CASE ~Changing' /\ target' = target
    <3>1. Changing' = Changing
      BY <2>2, <2>8 DEF Changing
    <3> QED BY <2>5, <2>8, <3>1
  <2> QED BY <2>4, <2>6, <2>7, <2>8
<1>11. ASSUME NEW r \in Restores, Apply(r) \/ Orphan(r) PROVE Goal
  <2>1. UNCHANGED <<kept, code>> /\ Changing
    BY <1>11 DEF Apply, Orphan, Step, Changing
  <2> QED BY <1>3, <2>1
<1>12. ASSUME NEW r \in Restores, Fail(r) PROVE Goal
  <2>1. UNCHANGED <<target, kept>> /\ pc[r] = "fail"
    BY <1>12 DEF Fail, Step
  <2>2. Changing' = Changing
    BY <1>6, <1>12 DEF Unhandled, Fail, Step, Goto
  <2>3. code' = [code EXCEPT ![r] = kept[r] # Unset] \/ code' = code
    BY <1>12 DEF Fail
  <2>4. CASE code[r] \/ kept[r] = Unset \/ code' = code
    <3>1. code' = code
      BY <1>1, <2>3, <2>4 DEF NotYetOf, TypeOK
    <3> QED BY <1>3, <2>1, <2>2, <3>1
  <2>5. CASE ~code[r] /\ kept[r] # Unset /\ code' # code
    <3>1. kept[r] = target /\ code' = [code EXCEPT ![r] = TRUE]
      BY <1>1, <2>1, <2>3, <2>5 DEF SetAsideOf
    <3>2. Saved' = Saved \cup {target}
      BY <1>1, <2>1, <3>1 DEF Saved, TypeOK
    <3> QED BY <2>1, <2>2, <3>2
  <2> QED BY <2>4, <2>5
<1>13. ASSUME Crash PROVE Goal
  <2>1. UNCHANGED <<target, kept, code>>
    BY <1>13 DEF Crash
  <2>2. Changing' => Changing
    BY <1>1, <1>13, CrashFacts DEF Changing, Active
  <2>3. Saved' = Saved
    BY <1>3, <2>1
  <2>4. CASE Changing
    BY <2>3, <2>4
  <2>5. CASE ~Changing
    <3>1. Changing' = Changing
      BY <2>2, <2>5 DEF Changing
    <3> QED BY <2>1, <2>3, <3>1
  <2> QED BY <2>4, <2>5
<1>14. CASE UNCHANGED <<target, kept, code, pc>>
  BY <1>3, <1>4, <1>14
<1> QED
  BY <1>2, <1>7, <1>8, <1>9, <1>10, <1>11, <1>12, <1>13, <1>14
     DEF Next, Work, DeleteFile, DeleteRow, Rot, Restart, vars

\* Restores with a safety backup, one after the other, implement the contract
\* with the owner of the target: Spec => ContractHolds.
THEOREM ImplementsContract ==
    ~Overlap /\ (\A r \in Restores : Safety[r]) => (Spec => ContractHolds)
<1> SUFFICES ASSUME ~Overlap, \A r \in Restores : Safety[r] PROVE Spec => ContractHolds
  OBVIOUS
<1>1. Init => Contract!ContractInit
  BY ContentFacts DEF Init, Contract!ContractInit
<1>2. SerialInv /\ SerialInv' /\ [Next]_vars => [Contract!ContractNext]_<<target, Saved, Changing>>
  BY ContractStep
<1>3. [Contract!ContractNext]_<<target, Saved, Changing>> => [Contract!ContractNext]_Contract!ContractVars
  BY DEF Contract!ContractVars, Saved, Changing
<1> QED
  BY <1>1, <1>2, <1>3, SerialInit, SerialStep, PTL DEF Spec, ContractHolds, Contract!ContractSpec

----------------------------------------------------------------------------
(* What is reported as a success *)

\* What was dumped, or what a file whose bytes changed after the check made of it.
Vouched(r, value) ==
    \/ value = Source[r]
    \/ ~sealed /\ files[Source[r]] # "sound" /\ value = "damaged"

\* Of a restore under way: what its tool is done with is in the target, or in the
\* transaction.
ReplayedOf(r) ==
    /\ pc[r] = "apply" =>
          \A t \in Dumped \ todo[r] :
              IF Adapter.atOnce THEN t \in DOMAIN pending[r] /\ Vouched(r, pending[r][t])
              ELSE target # NoDatabase /\ Vouched(r, target[t])
    /\ pc[r] \in {"verify", "finish"} => \A t \in Dumped : Vouched(r, target[t])
Replayed == \A r \in Restores : ReplayedOf(r)

ReplayInv == TypeOK /\ OneAtATime /\ Replayed

\* Files only get worse.
LEMMA FilesDecay ==
    ASSUME TypeOK, [Next]_vars, NEW b \in Backups, files[b] # "sound"
    PROVE  files'[b] # "sound"
BY DEF Next, Work, Prepare, Begin, Check, Snapshot, StoreCode, Unpack, Connect, Apply, Verify,
   Finish, Fail, Orphan, DeleteFile, DeleteRow, Rot, Crash, Restart, vars, case, store, TypeOK

LEMMA CaseStays == [Next]_vars => sealed' = sealed /\ engine' = engine
BY DEF Next, Work, Prepare, Begin, Check, Snapshot, StoreCode, Unpack, Connect, Apply, Verify,
   Finish, Fail, Orphan, DeleteFile, DeleteRow, Rot, Crash, Restart, vars, case

\* A restore whose stage and tables stay, while the target stays.
LEMMA VouchedStays ==
    ASSUME TypeOK, [Next]_vars, NEW r \in Restores, NEW value, Vouched(r, value)
    PROVE  Vouched(r, value)'
BY FilesDecay, CaseStays, SourceFacts DEF Vouched

LEMMA AdapterStays == [Next]_vars => Adapter' = Adapter
BY CaseStays DEF Adapter

LEMMA ReplayedRests ==
    ASSUME TypeOK, [Next]_vars, Replayed, NEW r \in Restores, target' = target,
           pc'[r] = pc[r] \/ pc'[r] \notin {"apply", "verify", "finish"}, todo'[r] = todo[r],
           pending'[r] = pending[r] \/ pc'[r] # "apply"
    PROVE  ReplayedOf(r)'
BY VouchedStays, AdapterStays DEF Replayed, ReplayedOf

\* The tool writes a table beside those it has written.
LEMMA WriteVouches ==
    ASSUME ReplayInv, [Next]_vars, NEW r \in Restores, pc[r] = "apply", Write(r), UNCHANGED pc,
           UNCHANGED <<case, store>>
    PROVE  ReplayedOf(r)'
<1>1. TypeOK /\ ReplayedOf(r)
  BY DEF ReplayInv, Replayed
<1>2. PICK t \in todo[r] :
        /\ todo' = [todo EXCEPT ![r] = @ \ {t}]
        /\ \/ /\ Adapter.atOnce /\ UNCHANGED target
              /\ pending' = [pending EXCEPT ![r] = [u \in DOMAIN @ \cup {t} |->
                                                       IF u = t THEN Payload(r) ELSE @[u]]]
           \/ /\ ~Adapter.atOnce /\ UNCHANGED pending
              /\ target' = With([u \in {t} |-> Payload(r)])
  BY DEF Write
<1>3. todo'[r] = todo[r] \ {t} /\ t \in Tables
  BY <1>1, <1>2 DEF TypeOK
<1>4. UNCHANGED <<sealed, files>>
  BY DEF case, store
<1>5. Vouched(r, Payload(r))
  BY DEF Vouched, Payload
<1>6. pc'[r] = "apply" /\ Adapter' = Adapter
  BY AdapterStays
<1>7. CASE Adapter.atOnce
  <2>1. pending'[r] = [u \in DOMAIN pending[r] \cup {t} |->
                          IF u = t THEN Payload(r) ELSE pending[r][u]]
    BY <1>1, <1>2, <1>7 DEF TypeOK
  <2>2. ASSUME NEW u \in Dumped \ todo'[r]
        PROVE  u \in DOMAIN pending'[r] /\ Vouched(r, pending'[r][u])
    <3>1. CASE u = t
      BY <1>5, <2>1, <3>1
    <3>2. CASE u # t
      BY <1>1, <1>3, <1>5, <1>7, <2>1, <3>2 DEF ReplayedOf
    <3> QED BY <3>1, <3>2
  <2> QED BY <1>4, <1>6, <1>7, <2>2 DEF ReplayedOf, Vouched
<1>8. CASE ~Adapter.atOnce
  <2>1. target' = With([u \in {t} |-> Payload(r)])
    BY <1>2, <1>8
  <2>2. ~Adapter.replaces
    BY <1>1, <1>8, RestoreAssumption DEF Adapter, SQLiteAdapter, MySQLAdapter, PostgresAdapter,
       MongoDBAdapter, TypeOK
  <2>3. target' # NoDatabase
    BY <1>3, <2>1 DEF With, NoDatabase
  <2>4. ASSUME NEW u \in Dumped \ todo'[r] PROVE Vouched(r, target'[u])
    <3>0. u \in Tables
      BY RestoreAssumption
    <3>1. CASE u = t
      <4>1. target'[u] = Payload(r)
        BY <2>1, <3>0, <3>1 DEF With
      <4> QED BY <1>5, <4>1
    <3>2. CASE u # t
      <4>1. target # NoDatabase /\ Vouched(r, target[u])
        BY <1>1, <1>3, <1>8, <3>2 DEF ReplayedOf
      <4>2. target'[u] = target[u]
        BY <2>1, <2>2, <3>0, <3>2, <4>1 DEF With
      <4> QED BY <1>5, <4>1, <4>2
    <3> QED BY <3>1, <3>2
  <2> QED BY <1>4, <1>6, <1>8, <2>3, <2>4 DEF ReplayedOf, Vouched
<1> QED BY <1>7, <1>8

\* With the last table written the dump is in the target.
LEMMA CommitVouches ==
    ASSUME ReplayInv, [Next]_vars, NEW r \in Restores, pc[r] = "apply", todo[r] = {}, Commit(r),
           UNCHANGED <<case, store>>
    PROVE  \A t \in Dumped : Vouched(r, target[t])'
<1>1. TypeOK /\ ReplayedOf(r)
  BY DEF ReplayInv, Replayed
<1>2. UNCHANGED <<sealed, files>>
  BY DEF case, store
<1>3. CASE Adapter.atOnce
  BY <1>1, <1>2, <1>3, RestoreAssumption DEF Commit, With, ReplayedOf, Vouched
<1>4. CASE ~Adapter.atOnce
  BY <1>1, <1>2, <1>4 DEF Commit, ReplayedOf, Vouched
<1> QED BY <1>3, <1>4

LEMMA ReplayNext ==
    ASSUME ~Overlap, ReplayInv, [Next]_vars
    PROVE  Replayed'
<1>1. TypeOK /\ OneAtATime /\ Replayed
  BY DEF ReplayInv
<1>2. ASSUME UNCHANGED <<target, todo, pending, pc>> PROVE Replayed'
  BY <1>1, <1>2, ReplayedRests DEF Replayed
<1>3. ASSUME NEW r \in Restores, NEW stage, stage \notin {"apply", "verify", "finish"},
             UNCHANGED <<target, todo>>, Goto(r, stage),
             \A s \in Restores : s # r => pending'[s] = pending[s]
      PROVE  Replayed'
  <2>1. \A s \in Restores : pc'[s] = IF s = r THEN stage ELSE pc[s]
    BY <1>1, <1>3 DEF Goto, TypeOK
  <2> QED BY <1>1, <1>3, <2>1, ReplayedRests DEF Replayed
<1>4. ASSUME NEW r \in Restores, Connect(r) PROVE Replayed'
  <2>1. pc[r] = "connect" /\ Working(r)
    BY <1>4 DEF Connect, Step, Working, Active
  <2>2. ASSUME NEW s \in Restores, s # r PROVE ReplayedOf(s)'
    <3>1. pc[s] \notin {"apply", "verify", "finish"}
      BY <1>1, <2>1, <2>2 DEF OneAtATime, Working, Active
    <3>2. \E stage : pc' = [pc EXCEPT ![r] = stage]
      BY <1>4 DEF Connect, Goto
    <3>3. pc'[s] = pc[s]
      BY <1>1, <2>2, <3>2 DEF TypeOK
    <3> QED BY <3>1, <3>3 DEF ReplayedOf
  <2>3. ReplayedOf(r)'
    <3>1. \/ pc' = [pc EXCEPT ![r] = "apply"] /\ todo' = [todo EXCEPT ![r] = Dumped]
          \/ pc' = [pc EXCEPT ![r] = "fail"]
      BY <1>1, <1>4, ConnectFacts
    <3>2. pc'[r] = "fail" \/ (pc'[r] = "apply" /\ todo'[r] = Dumped)
      BY <1>1, <3>1 DEF TypeOK
    <3> QED BY <3>2 DEF ReplayedOf
  <2> QED BY <2>2, <2>3 DEF Replayed
<1>5. ASSUME NEW r \in Restores, Apply(r) PROVE Replayed'
  <2>1. pc[r] = "apply" /\ Working(r) /\ UNCHANGED <<case, store>>
    BY <1>5 DEF Apply, Step, Working, Active
  <2>2. ASSUME NEW s \in Restores, s # r PROVE ReplayedOf(s)'
    <3>1. pc[s] \notin {"apply", "verify", "finish"}
      BY <1>1, <2>1, <2>2 DEF OneAtATime, Working, Active
    <3>2. pc'[s] = pc[s]
      BY <1>1, <1>5, <2>2 DEF Apply, ClientFails, Goto, TypeOK
    <3> QED BY <3>1, <3>2 DEF ReplayedOf
  <2>3. CASE Write(r) /\ UNCHANGED pc
    <3>1. ReplayedOf(r)'
      BY <1>1, <2>1, <2>3, WriteVouches
    <3> QED BY <2>2, <3>1 DEF Replayed
  <2>4. CASE todo[r] = {} /\ Commit(r) /\ Goto(r, "verify") /\ UNCHANGED todo
    <3>1. pc'[r] = "verify"
      BY <1>1, <2>4 DEF Goto, TypeOK
    <3>2. \A t \in Dumped : Vouched(r, target[t])'
      BY <2>1, <2>4, CommitVouches
    <3>3. ReplayedOf(r)'
      BY <3>1, <3>2 DEF ReplayedOf
    <3> QED BY <2>2, <3>3 DEF Replayed
  <2>5. CASE ClientFails(r)
    <3>1. pc'[r] = "fail"
      BY <1>1, <2>5 DEF ClientFails, Goto, TypeOK
    <3>2. ReplayedOf(r)'
      BY <3>1 DEF ReplayedOf
    <3> QED BY <2>2, <3>2 DEF Replayed
  <2> QED BY <1>5, <2>3, <2>4, <2>5 DEF Apply
<1>6. ASSUME NEW r \in Restores, Verify(r) PROVE Replayed'
  <2>1. pc[r] = "verify" /\ UNCHANGED <<target, todo, pending>>
    BY <1>6 DEF Verify, Step
  <2>2. CASE Goto(r, "fail")
    BY <1>3, <2>1, <2>2
  <2>3. CASE Goto(r, "finish")
    <3>1. \A t \in Dumped : Vouched(r, target[t])'
      <4>1. ASSUME NEW t \in Dumped PROVE Vouched(r, target[t])'
        <5>1. Vouched(r, target[t])
          BY <1>1, <2>1 DEF Replayed, ReplayedOf
        <5> QED BY <1>1, <2>1, <5>1, VouchedStays
      <4> QED BY <4>1
    <3>2. pc'[r] = "finish" /\ \A s \in Restores : s # r => pc'[s] = pc[s]
      BY <1>1, <2>3 DEF Goto, TypeOK
    <3> QED BY <1>1, <2>1, <3>1, <3>2, ReplayedRests DEF Replayed, ReplayedOf
  <2> QED BY <1>6, <2>2, <2>3 DEF Verify, May
<1>7. ASSUME NEW r \in Restores, Orphan(r) PROVE Replayed'
  <2>1. pc[r] = "orphan" /\ Working(r)
    BY <1>7 DEF Orphan, Working
  <2>2. ASSUME NEW s \in Restores PROVE ReplayedOf(s)'
    <3>1. pc[s] \notin {"apply", "verify", "finish"}
      BY <1>1, <2>1, <2>2 DEF OneAtATime, Working, Active
    <3>2. pc'[s] = pc[s] \/ pc'[s] = "dead"
      BY <1>1, <1>7, <2>2 DEF Orphan, Goto, TypeOK
    <3> QED BY <3>1, <3>2 DEF ReplayedOf
  <2> QED BY <2>2 DEF Replayed
<1>8. CASE Crash
  <2>1. UNCHANGED <<target, todo>>
    BY <1>8 DEF Crash
  <2>2. \A s \in Restores : pc'[s] \in {"orphan", "dead"} \/ (pc'[s] = pc[s] /\ pc[s] \notin Active)
    BY <1>1, <1>8, CrashFacts
  <2> QED BY <1>1, <2>1, <2>2, ReplayedRests DEF Replayed, Active
<1>9. ASSUME NEW r \in Restores, Prepare(r) \/ Begin(r) \/ Check(r) \/ Snapshot(r) \/ StoreCode(r)
             \/ Unpack(r) \/ Finish(r) \/ Fail(r)
      PROVE  Replayed'
  <2>1. UNCHANGED <<target, todo, pending>>
    BY <1>9 DEF Prepare, Begin, Check, Snapshot, StoreCode, Unpack, Finish, Fail
  <2>2. \E stage : stage \notin {"apply", "verify", "finish"} /\ Goto(r, stage)
    BY <1>9 DEF Unhandled, Prepare, Begin, Check, Snapshot, StoreCode, Unpack, Finish, Fail, May
  <2> QED BY <1>3, <2>1, <2>2
<1> QED
  BY <1>2, <1>4, <1>5, <1>6, <1>7, <1>8, <1>9 DEF Next, Work, DeleteFile, DeleteRow, Rot, Restart, vars

\* Only Finish reports a success.
LEMMA SuccessStep ==
    ASSUME ReplayInv, [Next]_vars, NEW r \in Restores, row[r] = "running", row'[r] = "success"
    PROVE  pc[r] = "finish"
<1>1. TypeOK
  BY DEF ReplayInv
<1>2. ASSUME NEW s \in Restores, Prepare(s) PROVE row'[r] = row[r] \/ row'[r] = "running"
  BY <1>1, <1>2 DEF Prepare, TypeOK
<1>3. ASSUME NEW s \in Restores, Finish(s) PROVE row'[r] = row[r] \/ (s = r /\ pc[r] = "finish")
  BY <1>1, <1>3 DEF Finish, Step, TypeOK
<1>4. ASSUME NEW s \in Restores, Fail(s) PROVE row'[r] = row[r] \/ row'[r] = "failed"
  BY <1>1, <1>4 DEF Fail, TypeOK
<1>5. CASE Restart
  BY <1>1, <1>5 DEF Restart, Interrupted, TypeOK
<1>6. row' = row => row'[r] = row[r]
  OBVIOUS
<1> QED
  BY <1>2, <1>3, <1>4, <1>5, <1>6 DEF Next, Work, Begin, Check, Snapshot, StoreCode, Unpack, Connect,
     Apply, Verify, Orphan, DeleteFile, DeleteRow, Rot, Crash, vars

\* A restore that is reported as a success has put the tables of its dump into
\* the target, when restores come one after the other, whatever fails and
\* crashes, for every engine: Spec => SuccessIsTheDump.
THEOREM SuccessIsTruthful == ~Overlap => (Spec => SuccessIsTheDump)
<1> SUFFICES ASSUME ~Overlap PROVE Spec => SuccessIsTheDump
  OBVIOUS
<1>1. Init => ReplayInv
  <2> SUFFICES ASSUME Init PROVE OneAtATime /\ Replayed
    BY TypeInit DEF ReplayInv
  <2>1. OneAtATime
    BY SerialInit DEF SerialInv
  <2> QED BY <2>1 DEF Init, Replayed, ReplayedOf
<1>2. ReplayInv /\ [Next]_vars => ReplayInv'
  BY TypeNext, OneAtATimeNext, ReplayNext DEF ReplayInv
<1>3. ReplayInv /\ [Next]_vars =>
          [\A r \in Restores : row[r] = "running" /\ row'[r] = "success" =>
              \A t \in Dumped : \/ target[t] = Source[r]
                                \/ ~sealed /\ files[Source[r]] # "sound" /\ target[t] = "damaged"]_vars
  BY SuccessStep DEF ReplayInv, Replayed, ReplayedOf, Vouched
<1> QED
  BY <1>1, <1>2, <1>3, PTL DEF Spec, SuccessIsTheDump

=============================================================================
