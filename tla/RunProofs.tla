------------------------------ MODULE RunProofs ------------------------------
(***************************************************************************)
(* Proofs about table process_history, for every value of the constants:   *)
(* handle_stop closes an open run, and the runs follow the handles.        *)
(*                                                                         *)
(* The code has no id of the run it is to close: it takes the latest of    *)
(* the app.  What follows rests on the invariants of RowProofs (an id is   *)
(* of one app) and HandleProofs (an activation works on the app that the   *)
(* supervisor works on).                                                   *)
(***************************************************************************)
EXTENDS TrackingProofs

\* The row that a handler works on is that of its app, ...
OwnRow ==
  sup.row # None => sup.pc \notin {"restore", "next", "idle"} /\ sup.row.name = sup.app

\* ... and while it stops the app, or has failed to restore it, the map holds
\* nothing of it.
StopFree ==
  sup.pc \in {"stopMark", "kill", "closeRun", "stopSave", "forget", "restoreFail"} =>
    running[sup.app] = None

TaskInv == OwnRow /\ StopFree

LEMMA NextKeepsTask ==
  ASSUME Inv, TaskInv, [Next]_vars
  PROVE  TaskInv'
  <1>0. /\ sup \in Task /\ queue \in Seq(Message) /\ TaskReady /\ Rooted /\ SlotFree
        /\ SupervisorTypeOK /\ StoreTypeOK /\ OwnRow /\ StopFree
    BY DEF Inv, TypeOK, SupervisorTypeOK, TaskInv
  <1>1. ASSUME sup'.row = None,
               sup'.pc \notin {"stopMark", "kill", "closeRun", "stopSave", "forget", "restoreFail"}
        PROVE  TaskInv'
    BY <1>1 DEF TaskInv, OwnRow, StopFree
  <1>2. ASSUME UNCHANGED running, sup'.app = sup.app, sup'.row = sup.row,
               sup.row # None => sup'.pc \notin {"restore", "next", "idle"},
               sup'.pc \in {"stopMark", "kill", "closeRun", "stopSave", "forget", "restoreFail"}
                 => sup.pc \in {"starting", sup'.pc, "kill", "closeRun"}
        PROVE  TaskInv'
    BY <1>0, <1>2 DEF TaskInv, OwnRow, StopFree, SlotFree
  <1>3. CASE UNCHANGED <<running, sup>>
    BY <1>0, <1>2, <1>3 DEF OwnRow
  <1>4. CASE SupervisorNext
    <2>1. ASSUME Finish PROVE sup'.row = None /\ sup'.pc \in {"idle", "next"}
      BY <2>1 DEF Finish, Returns, IdleTask
    <2>2. ASSUME Unhealthy PROVE sup'.row = None /\ sup'.pc \in {"idle", "next", "restart"}
      BY <1>0, <2>1, <2>2 DEF Unhealthy, Task
    <2>3. ASSUME sup' = AfterStop PROVE sup'.row = None /\ sup'.pc \in {"idle", "next", "startCheck"}
      BY <1>0, <2>1, <2>3 DEF AfterStop, Finish, Task
    <2>4. ASSUME sup' = IdleTask PROVE sup'.row = None /\ sup'.pc = "idle"
      BY <2>4 DEF IdleTask
    <2>5. CASE Finish \/ Unhealthy \/ sup' = AfterStop \/ sup' = IdleTask
      BY <1>1, <2>1, <2>2, <2>3, <2>4, <2>5
    <2>6. CASE Receive
      <3>1. Head(queue) \in Message
        BY <1>0, <2>6 DEF Receive
      <3>2. Handler(Head(queue).kind) \in {"startCheck", "stop", "restart", "health", "exit"}
        BY <3>1 DEF Handler, Message
      <3>3. sup.row = None
        BY <1>0, <2>6 DEF Receive, At, OwnRow
      <3> QED BY <1>0, <1>1, <2>6, <3>2, <3>3 DEF Receive, Task
    <2>7. CASE Restore \/ Tick
      <3>1. sup.row = None
        BY <1>0, <2>7 DEF Restore, Tick, At, OwnRow
      <3> QED BY <1>0, <1>1, <2>7, <3>1 DEF Restore, Tick, Task
    <2>8. CASE NextApp
      <3>1. sup.row = None /\ UNCHANGED running
        BY <1>0, <2>8 DEF NextApp, At, OwnRow
      <3>2. PICK row \in sup.todo :
              \/ sup' = [sup EXCEPT !.pc = "starting", !.app = row.name, !.row = row,
                                    !.todo = @ \ {row}]
              \/ sup' = [sup EXCEPT !.pc = "health", !.app = row.name, !.todo = @ \ {row}]
        BY <2>8 DEF NextApp
      <3>3. CASE sup' = [sup EXCEPT !.pc = "starting", !.app = row.name, !.row = row,
                                    !.todo = @ \ {row}]
        <4>1. sup'.pc = "starting" /\ sup'.app = row.name /\ sup'.row = row
          BY <1>0, <3>3 DEF Task
        <4> QED BY <4>1 DEF TaskInv, OwnRow, StopFree
      <3>4. CASE sup' = [sup EXCEPT !.pc = "health", !.app = row.name, !.todo = @ \ {row}]
        BY <1>0, <1>1, <3>1, <3>4 DEF Task
      <3> QED BY <3>2, <3>3, <3>4
    <2>9. CASE StopRead /\ Row # None
      <3>1. /\ sup'.row = Row /\ sup'.app = sup.app /\ sup'.pc \in {"stopMark", "forget"}
            /\ running' = [running EXCEPT ![sup.app] = None] /\ sup.app \in Names
        BY <1>0, <2>9 DEF StopRead, TakeChild, Task, At, TaskReady
      <3> QED BY <1>0, <2>9, <3>1 DEF TaskInv, OwnRow, StopFree, Row, Rooted, SupervisorTypeOK
    <2>10. CASE ExitRead /\ Row # None
      <3>1. /\ sup'.row = Exited(Row, sup.code) /\ sup'.app = sup.app /\ sup'.pc = "exitClose"
            /\ sup.app \in Names
        BY <1>0, <2>10 DEF ExitRead, Task, At, TaskReady
      <3>2. Row \in App /\ Row.name = sup.app
        BY <1>0, <2>10, <3>1 DEF Row, StoreTypeOK, Rooted
      <3>3. Exited(Row, sup.code).name = Row.name
        BY <3>2 DEF Exited, App
      <3> QED BY <3>1, <3>2, <3>3 DEF TaskInv, OwnRow, StopFree
    <2>11. CASE StopMark /\ ~Finish
      <3>1. sup.row \in App /\ sup.row # None /\ sup.pc = "stopMark"
        BY <1>0, <2>11, NoneIsNoApp DEF StopMark, At, TaskReady
      <3>2. InState(sup.row, "Stopping").name = sup.row.name
        BY <3>1 DEF InState, App
      <3>3. /\ sup'.row = InState(sup.row, "Stopping") /\ sup'.app = sup.app /\ sup'.pc = "kill"
            /\ UNCHANGED running
        BY <1>0, <2>11 DEF StopMark, Task
      <3> QED BY <1>0, <3>1, <3>2, <3>3 DEF TaskInv, OwnRow, StopFree
    <2>12. CASE StartCheck \/ StartFailed \/ Kill \/ CloseRun \/ ExitClose \/ ExitSave
      <3>1. UNCHANGED running
        BY <2>12 DEF StartCheck, StartFailed, Kill, CloseRun, ExitClose, ExitSave
      <3>2. CASE ~Finish
        BY <1>0, <1>2, <2>12, <3>1, <3>2 DEF StartCheck, StartFailed, Kill, CloseRun, ExitClose,
           ExitSave, Goto, At, Task
      <3> QED BY <2>5, <3>2
    <2>13. CASE (RestartRead \/ HealthRead) /\ ~Finish /\ ~Unhealthy
      <3>1. UNCHANGED running /\ sup.app \in Names
        BY <1>0, <2>13 DEF RestartRead, HealthRead, At, TaskReady
      <3>2. CASE RestartRead
        BY <1>0, <1>2, <2>13, <3>1, <3>2 DEF RestartRead, Task
      <3>3. CASE HealthRead
        <4>1. sup'.row = Row /\ Row # None /\ sup'.app = sup.app /\ sup'.pc = "probe"
          BY <1>0, <2>13, <3>3 DEF HealthRead, Checked, Task
        <4> QED BY <1>0, <3>1, <4>1 DEF TaskInv, OwnRow, StopFree, Row, Rooted
      <3> QED BY <2>13, <3>2, <3>3
    <2> QED BY <1>3, <1>4, <2>5, <2>6, <2>7, <2>8, <2>9, <2>10, <2>11, <2>12, <2>13
            DEF SupervisorNext, Work, StatementFails, LoopEnds, StartDone, RestoreFail, StopRead,
                StopMark, StopSave, ProbePasses, ProbeFails, ExitRead, RestartRead, HealthRead
  <1>5. CASE (\E c \in Callers : CallNext(c)) \/ (\E p \in Pids : ProcessNext(p)) \/ LibrarySend
             \/ UNCHANGED vars
    BY <1>3, <1>5 DEF CallNext, ProcessNext, LibrarySend, vars, supVars
  <1>6. CASE \E r \in Requests : RequestNext(r)
    BY <1>3, <1>6, RequestsKeepSupervisor DEF Inv, TypeOK, RequestNext
  <1>7. CASE Crash
    BY <1>1, <1>7 DEF Crash, BootTask, IdleTask
  <1> QED BY <1>4, <1>5, <1>6, <1>7 DEF Next

------------------------------------------------------------------------------
\* Runs.

\* The latest run of the app is open, if it has any.
LastOpen(id) == history[id] # << >> => history[id][Len(history[id])].reason = None

\* The foreign key.
RunsHaveApp == \A id \in Ids : history[id] # << >> => HasId(id)

\* The latest run of an app stays open from the moment that start::execute has
\* recorded it until the supervisor closes it, whoever else appends runs by
\* then or deletes them.
HandleOpen == \A n \in Stored : running[n] # None => LastOpen(apps[n].id)

StartOpen ==
  call[Super].pc \in {"commit", "done"} /\ apps[sup.app] # None => LastOpen(apps[sup.app].id)

StopOpen == sup.pc \in {"stopMark", "kill", "closeRun"} => LastOpen(sup.row.id)

RunsInv == RunsHaveApp /\ HandleOpen /\ StartOpen /\ StopOpen

CloseInv == Inv /\ IdInv /\ HandleInv /\ TaskInv /\ RunsInv

------------------------------------------------------------------------------
\* What a step does to runs and to the apps they are of.

\* A step that changes table apps leaves the history alone.
LEMMA AppsOrHistory ==
  ASSUME CloseInv, [Next]_vars
  PROVE  RowsStep(HomeRows) /\ (UNCHANGED apps \/ UNCHANGED history)
  <1>1. RowsStep(HomeRows)
    BY SavesAtHome DEF CloseInv
  <1>2. \A r \in Requests : DeleteRow(r) => UNCHANGED history
    BY DEF DeleteRow, DeleteApp, storeVars
  <1> QED BY <1>1, <1>2 DEF RowsStep, Save

\* The app under a name is the one that was there, or it has no runs yet; the
\* app of an id with runs is not deleted.
LEMMA AppsStep ==
  ASSUME CloseInv, [Next]_vars
  PROVE  /\ \A n \in Names : apps'[n] # None =>
              \/ apps[n] # None /\ apps'[n].id = apps[n].id
              \/ history'[apps'[n].id] = << >>
         /\ \A id \in Ids : HasId(id) => HasId(id)' \/ history'[id] = << >>
  <1>0. StoreTypeOK /\ Rooted /\ RunsHaveApp
    BY DEF CloseInv, Inv, TypeOK, RunsInv
  <1>1. CASE UNCHANGED apps
    BY <1>1 DEF HasId, Stored
  <1>2. CASE \E r \in Requests : DeleteRow(r)
    <2>1. PICK r \in Requests : DeleteRow(r)
      BY <1>2
    <2>2. CASE UNCHANGED storeVars
      BY <1>1, <2>2 DEF storeVars
    <2>3. CASE DeleteApp(req[r].id)
      BY <1>0, <2>3 DEF DeleteApp, Deletable, HasId, Stored, StoreTypeOK
    <2> QED BY <2>1, <2>2, <2>3 DEF DeleteRow
  <1>3. CASE \E row \in HomeRows : Save(row)
    <2>1. PICK row \in HomeRows : Save(row)
      BY <1>3
    <2>2. /\ row \in App /\ row.name \in Names /\ row.id \in Ids /\ row # None
          /\ \A n \in Stored : apps[n].id = row.id => n = row.name
      BY NoneIsNoApp DEF HomeRows, App
    <2>3. /\ UNCHANGED history /\ Saveable(row)
          /\ apps'[row.name] = row
          /\ \A n \in Names \ {row.name} : apps'[n] = apps[n]
      BY <1>0, <2>1, <2>2 DEF Save, StoreTypeOK
    <2>4. apps[row.name] = None => history[row.id] = << >>
      BY <1>0, <2>2 DEF RunsHaveApp, HasId, Stored
    <2>5. \A n \in Names : apps'[n] # None =>
              \/ apps[n] # None /\ apps'[n].id = apps[n].id
              \/ history'[apps'[n].id] = << >>
      BY <2>2, <2>3, <2>4 DEF Saveable
    <2>6. \A id \in Ids : HasId(id) => HasId(id)'
      BY <2>2, <2>3 DEF Saveable, HasId, Stored
    <2> QED BY <2>5, <2>6
  <1> QED BY <1>1, <1>2, <1>3, AppsOrHistory DEF RowsStep

\* Runs are added by start::execute, closed by the supervisor and deleted with
\* their app.
LEMMA HistoryStep ==
  ASSUME [Next]_vars
  PROVE  \/ UNCHANGED history
         \/ \E c \in Callers : StartRecord(c)
         \/ CloseRun \/ ExitClose
         \/ \E r \in Requests : DeleteHistory(r)
  <1>1. CASE SupervisorNext
    BY <1>1 DEF SupervisorNext, Work, Receive, Tick, StatementFails, Restore, NextApp, LoopEnds,
       StartCheck, StartDone, StartFailed, RestoreFail, StopRead, StopMark, Kill,
       StopSave, RestartRead, HealthRead, ProbePasses, ProbeFails, ExitRead, ExitSave,
       Save, storeVars
  <1>2. CASE \E c \in Callers : CallNext(c)
    BY <1>2 DEF CallNext, StartStep, StartRead, StartMark, StartSpawn, SpawnFails,
       StartCommit, StartRefused, Save, storeVars
  <1>3. CASE \E r \in Requests : RequestNext(r)
    BY <1>3 DEF RequestNext, Begin, Proceed, CreateCheck, DeleteCheck, DeployCheck, EnvRead,
       StopCheck, RestartCheck, ApiStart, CreateSetup, CreateSave, DeleteFiles, DeleteRow,
       DeleteApp, DeployWrite, DeployBusy, DeploySave, EnvSave, SaveRow, Send,
       Abandon, Save, storeVars
  <1> QED BY <1>1, <1>2, <1>3 DEF Next, ProcessNext, LibrarySend, Crash, vars, storeVars

\* A new run is open, and the row it is recorded for is stored.
LEMMA RecordAppends ==
  ASSUME Inv, NEW c \in Callers, StartRecord(c)
  PROVE  \E id \in Ids, pid \in Pids :
           /\ call[c].row \in App /\ id = call[c].row.id /\ pid = call[c].child
           /\ HasId(id)
           /\ history'[id] = Append(history[id], [pid |-> pid, reason |-> None])
           /\ \A other \in Ids \ {id} : history'[other] = history[other]
           /\ LastOpen(id)'
  <1>0. StoreTypeOK /\ CallsReady /\ call[c].pc = "record"
    BY DEF Inv, TypeOK, StartRecord
  <1>1. call[c].row \in App /\ call[c].row.id \in Ids /\ call[c].child \in Pids
    BY <1>0 DEF CallsReady, App
  <1>2. PICK id \in Ids, pid \in Pids : id = call[c].row.id /\ pid = call[c].child
    BY <1>1
  <1> DEFINE run == [pid |-> pid, reason |-> None]
  <1>3. /\ HasId(id)
        /\ history'[id] = Append(history[id], run)
        /\ \A other \in Ids \ {id} : history'[other] = history[other]
    BY <1>0, <1>2 DEF StartRecord, InsertRun, StoreTypeOK
  <1>4. history[id] \in Seq(Run) /\ run \in Run
    BY <1>0 DEF StoreTypeOK, Run
  <1>5. Append(history[id], run)[Len(Append(history[id], run))] = run
    BY <1>4
  <1>6. LastOpen(id)'
    BY <1>3, <1>5 DEF LastOpen
  <1> QED BY <1>1, <1>2, <1>3, <1>6

\* Only the supervisor closes a run, and that of the row it works on.
LEMMA OpenKept ==
  ASSUME Inv, [Next]_vars, NEW id \in Ids, LastOpen(id)
  PROVE  LastOpen(id)' \/ ((CloseRun \/ ExitClose) /\ id = sup.row.id)
  <1>0. StoreTypeOK /\ TaskReady
    BY DEF Inv, TypeOK
  <1>1. CASE history'[id] = history[id]
    BY <1>1 DEF LastOpen
  <1>2. CASE \E c \in Callers : StartRecord(c)
    BY <1>1, <1>2, RecordAppends
  <1>3. CASE \E r \in Requests : DeleteHistory(r)
    <2>1. history'[id] = history[id] \/ history'[id] = << >>
      BY <1>0, <1>3 DEF DeleteHistory, DeleteRuns, StoreTypeOK
    <2> QED BY <1>1, <2>1 DEF LastOpen
  <1>4. CASE CloseRun \/ ExitClose
    <2>1. id # sup.row.id => history'[id] = history[id]
      BY <1>0, <1>4 DEF CloseRun, ExitClose, CloseLatestRun, StoreTypeOK
    <2> QED BY <1>1, <1>4, <2>1
  <1> QED BY <1>1, <1>2, <1>3, <1>4, HistoryStep

LEMMA NextKeepsRunsHaveApp ==
  ASSUME CloseInv, [Next]_vars
  PROVE  RunsHaveApp'
  <1> SUFFICES ASSUME NEW id \in Ids, history'[id] # << >> PROVE HasId(id)'
    BY DEF RunsHaveApp
  <1>0. StoreTypeOK /\ TaskReady /\ RunsHaveApp
    BY DEF CloseInv, Inv, TypeOK, RunsInv
  <1>1. CASE history[id] # << >>
    BY <1>0, <1>1, AppsStep DEF RunsHaveApp
  <1>2. CASE history[id] = << >>
    <2>1. ~ (CloseRun \/ ExitClose)
      BY <1>0, <1>2 DEF CloseRun, ExitClose, CloseLatestRun, ClosedRun, StoreTypeOK
    <2>2. ~ \E r \in Requests : DeleteHistory(r)
      BY <1>0, <1>2 DEF DeleteHistory, DeleteRuns, StoreTypeOK
    <2>3. PICK c \in Callers : StartRecord(c)
      BY <1>2, <2>1, <2>2, HistoryStep
    <2>4. id = call[c].row.id /\ HasId(id)
      BY <1>2, <2>3, RecordAppends DEF CloseInv
    <2> QED BY <2>4, AppsStep
  <1> QED BY <1>1, <1>2

------------------------------------------------------------------------------
\* The latest run of whoever has a process stays open.

\* The row of the closed run is that of an app whose place in the map is empty.
LEMMA ClosesNoHandle ==
  ASSUME CloseInv, NEW n \in Stored, running[n] # None, CloseRun \/ ExitClose
  PROVE  apps[n].id # sup.row.id
  <1> SUFFICES ASSUME apps[n].id = sup.row.id PROVE FALSE
    OBVIOUS
  <1>0. /\ TaskReady /\ SlotFree /\ OwnRow /\ StopFree /\ RowsIn(HomeRows)
    BY CopiesAtHome DEF CloseInv, Inv, TaskInv
  <1>1. sup.pc \in {"closeRun", "exitClose"} /\ sup.row \in App /\ sup.row # None
    BY <1>0, NoneIsNoApp DEF CloseRun, ExitClose, At, TaskReady
  <1>2. sup.row \in HomeRows
    BY <1>0, <1>1 DEF RowsIn
  <1>3. n = sup.row.name /\ sup.row.name = sup.app
    BY <1>0, <1>1, <1>2 DEF HomeRows, OwnRow
  <1> QED BY <1>0, <1>1, <1>3 DEF StopFree, SlotFree

LEMMA NextKeepsHandleOpen ==
  ASSUME CloseInv, [Next]_vars
  PROVE  HandleOpen'
  <1> SUFFICES ASSUME NEW n \in Names, apps'[n] # None, running'[n] # None
               PROVE  \E id \in Ids : id = apps'[n].id /\ LastOpen(id)'
    BY DEF HandleOpen, Stored
  <1>0. /\ StoreTypeOK /\ StoreTypeOK' /\ SupervisorTypeOK /\ TaskReady
        /\ HandleOpen /\ StartOpen /\ HandleInv
    BY NextKeepsInv DEF CloseInv, Inv, TypeOK, RunsInv
  <1>1. PICK id \in Ids : id = apps'[n].id
    BY <1>0 DEF StoreTypeOK, App
  <1>2. CASE StartDone /\ running[n] = None
    <2>1. n = sup.app /\ call[Super].pc = "done" /\ UNCHANGED <<apps, history>>
      BY <1>0, <1>2 DEF StartDone, storeVars, SupervisorTypeOK
    <2>2. LastOpen(id)
      BY <1>0, <1>1, <2>1 DEF StartOpen
    <2> QED BY <1>1, <2>1, <2>2 DEF LastOpen
  <1>3. CASE running[n] # None
    <2>1. CASE history'[id] = << >>
      BY <1>1, <2>1 DEF LastOpen
    <2>2. CASE apps[n] # None /\ id = apps[n].id
      <3>1. LastOpen(id)
        BY <1>0, <1>3, <2>2 DEF HandleOpen, Stored
      <3>2. ~ ((CloseRun \/ ExitClose) /\ id = sup.row.id)
        BY <1>3, <2>2, ClosesNoHandle DEF Stored
      <3> QED BY <1>1, <3>1, <3>2, OpenKept DEF CloseInv
    <2> QED BY <1>1, <2>1, <2>2, AppsStep
  <1>4. running[n] = None => StartDone
    BY <1>0, OnlyStartDoneAdds
  <1> QED BY <1>2, <1>3, <1>4

\* An activation that has a child after a step had it before, unless it has just
\* spawned it.
LEMMA RecordedStep ==
  ASSUME Inv, HandleInv, [Next]_vars, call'[Super].pc \in {"record", "commit", "done"}
  PROVE  /\ UNCHANGED sup
         /\ \/ StartSpawn(Super) /\ call'[Super].pc = "record"
            \/ /\ call'[Super].child = call[Super].child
               /\ \/ call'[Super].pc = "record" /\ call[Super].pc = "record"
                  \/ call'[Super].pc # "record" /\ StartRecord(Super)
                  \/ call'[Super].pc # "record" /\ call[Super].pc \in {"commit", "done"}
  <1>0. StartTypeOK /\ Super \in Callers /\ call[Super] \in Call /\ Owned
        /\ SupervisorTypeOK /\ TaskReady /\ sup.todo \subseteq App
    BY DEF Inv, TypeOK, StartTypeOK, Callers, HandleInv, SupervisorTypeOK, Task
  <1>1. CASE SupervisorNext
    <2>1. ASSUME NEW n \in Names, CallStart(n) PROVE FALSE
      BY <1>0, <2>1 DEF CallStart, StartCall, IdleCall, StartTypeOK
    <2>2. ~ (call' = [call EXCEPT ![Super] = IdleCall])
      BY <1>0 DEF IdleCall, StartTypeOK
    <2>3. ~Return(Super, "failed")
      BY <1>0 DEF Return, Returned, StartTypeOK, Call
    <2>4. UNCHANGED call
      <3>1. \A row \in sup.todo : ~CallStart(row.name)
        BY <1>0, <2>1 DEF App
      <3>2. sup.pc \in {"startCheck", "exitSave"} => ~CallStart(sup.app)
        BY <1>0, <2>1 DEF TaskReady
      <3> QED BY <1>1, <2>2, <2>3, <3>1, <3>2 DEF SupervisorNext, Work, Receive, Tick,
            StatementFails, Restore, NextApp, LoopEnds, StartCheck, StartDone, StartFailed,
            RestoreFail, StopRead, StopMark, Kill, CloseRun, StopSave, RestartRead, HealthRead,
            ProbePasses, ProbeFails, ExitRead, ExitClose, ExitSave, At
    <2>5. sup.pc = "starting"
      BY <1>0, <2>4 DEF Owned
    <2>6. UNCHANGED sup
      BY <1>1, <2>2, <2>3, <2>5 DEF SupervisorNext, Work, Receive, Tick, StatementFails, Restore,
         NextApp, LoopEnds, StartCheck, StartDone, StartFailed, RestoreFail, StopRead, StopMark,
         Kill, CloseRun, StopSave, RestartRead, HealthRead, ProbePasses, ProbeFails, ExitRead,
         ExitClose, ExitSave, At
    <2> QED BY <1>0, <2>4, <2>6
  <1>2. CASE \E c \in Callers : CallNext(c)
    <2>1. PICK c \in Callers : StartStep(c) /\ UNCHANGED sup
      BY <1>2 DEF CallNext, supVars
    <2>2. CASE c # Super
      <3>1. call'[Super] = call[Super]
        BY <1>0, <2>1, <2>2, StartStepIsOwn
      <3> QED BY <1>0, <2>1, <3>1
    <2>3. CASE c = Super
      <3>1. ASSUME NEW pc, NEW row, Continue(Super, pc, row)
            PROVE  call'[Super].pc = pc /\ call'[Super].child = call[Super].child
        BY <1>0, <3>1 DEF Continue, StartTypeOK, Call
      <3>2. ASSUME NEW pc, Return(Super, pc)
            PROVE  call'[Super].pc = pc /\ call'[Super].child = call[Super].child
        BY <1>0, <3>2 DEF Return, Returned, StartTypeOK, Call
      <3>3. StartSpawn(Super) => call'[Super].pc = "record"
        BY <1>0 DEF StartSpawn, StartTypeOK, Call
      <3> QED BY <2>1, <2>3, <3>1, <3>2, <3>3 DEF StartStep, StartRead, StartMark, SpawnFails,
            StartRecord, StartCommit, StartRefused
    <2> QED BY <2>2, <2>3
  <1>3. CASE \E r \in Requests : RequestNext(r)
    <2>1. UNCHANGED sup /\ call'[Super] = call[Super]
      BY <1>0, <1>3, RequestsKeepSuper, RequestsKeepSupervisor DEF Inv, RequestNext
    <2> QED BY <1>0, <2>1
  <1>4. CASE (\E p \in Pids : ProcessNext(p)) \/ LibrarySend \/ UNCHANGED vars
    BY <1>4 DEF ProcessNext, LibrarySend, vars, supVars
  <1>5. CASE Crash
    <2>1. call' = [c \in Callers |-> IdleCall]
      BY <1>5 DEF Crash
    <2> QED BY <1>0, <2>1 DEF IdleCall
  <1> QED BY <1>1, <1>2, <1>3, <1>4, <1>5 DEF Next

LEMMA NextKeepsStartOpen ==
  ASSUME CloseInv, [Next]_vars
  PROVE  StartOpen'
  <1> SUFFICES ASSUME call'[Super].pc \in {"commit", "done"}, apps'[sup'.app] # None
               PROVE  \E id \in Ids : id = apps'[sup'.app].id /\ LastOpen(id)'
    BY DEF StartOpen
  <1>0. /\ StoreTypeOK /\ StoreTypeOK' /\ TaskReady /\ Rooted /\ StartOpen /\ Owned
        /\ UNCHANGED sup /\ Super \in Callers
        /\ StartRecord(Super) \/ call[Super].pc \in {"commit", "done"}
    BY NextKeepsInv, RecordedStep DEF CloseInv, Inv, TypeOK, RunsInv, HandleInv, Callers
  <1>1. sup.pc = "starting" /\ sup.app \in Names /\ call[Super].app = sup.app
    BY <1>0 DEF StartRecord, Owned, TaskReady
  <1>2. PICK id \in Ids : id = apps'[sup.app].id
    BY <1>0, <1>1 DEF StoreTypeOK, App
  <1>3. CASE StartRecord(Super)
    <2>1. PICK rec \in Ids : /\ rec = call[Super].row.id /\ HasId(rec) /\ LastOpen(rec)'
                             /\ call[Super].row \in App
      BY <1>0, <1>3, RecordAppends DEF CloseInv
    <2>2. call[Super].row \in HomeRows /\ call[Super].row.name = sup.app
      BY <1>0, <1>1, <2>1, CopiesAtHome, NoneIsNoApp DEF CloseInv, RowsIn, Owned
    <2>3. apps[sup.app] # None /\ apps[sup.app].id = rec
      BY <2>1, <2>2 DEF HasId, HomeRows, Stored
    <2>4. UNCHANGED apps
      BY <1>3 DEF StartRecord, InsertRun
    <2> QED BY <1>0, <2>1, <2>3, <2>4
  <1>4. CASE call[Super].pc \in {"commit", "done"}
    <2>1. CASE history'[id] = << >>
      BY <1>0, <1>2, <2>1 DEF LastOpen
    <2>2. CASE apps[sup.app] # None /\ id = apps[sup.app].id
      <3>1. LastOpen(id)
        BY <1>0, <1>4, <2>2 DEF StartOpen
      <3>2. ~CloseRun /\ ~ExitClose
        BY <1>1 DEF CloseRun, ExitClose, At
      <3> QED BY <1>0, <1>2, <3>1, <3>2, OpenKept DEF CloseInv
    <2> QED BY <1>0, <1>1, <1>2, <2>1, <2>2, AppsStep
  <1> QED BY <1>0, <1>3, <1>4

\* Where handle_stop and handle_process_exit are after a step, and how they came
\* there.
LEMMA StoppingStep ==
  ASSUME Inv, [Next]_vars, sup'.pc \in {"stopMark", "kill", "closeRun", "exitClose"}
  PROVE  \/ UNCHANGED sup
         \/ /\ StopRead \/ ExitRead
            /\ Row # None /\ UNCHANGED <<apps, history>>
            /\ sup'.row.id = Row.id
            /\ sup'.pc = "exitClose" \/ (running[sup.app] # None /\ sup'.child = running[sup.app])
         \/ /\ UNCHANGED history
            /\ sup.pc \in {"stopMark", "kill"}
            /\ sup'.pc = "closeRun" => Kill
            /\ sup'.row.id = sup.row.id /\ sup'.child = sup.child
  <1>0. /\ sup \in Task /\ queue \in Seq(Message) /\ TaskReady /\ StoreTypeOK
    BY DEF Inv, TypeOK, SupervisorTypeOK
  <1>1. ~Finish /\ sup' # IdleTask
    BY FinishType DEF Inv, TypeOK, IdleTask
  <1>2. ~Unhealthy /\ sup' # AfterStop
    BY <1>0, <1>1 DEF Unhealthy, AfterStop, Finish, Task
  <1>3. CASE StopRead \/ ExitRead
    <2>1. Row # None /\ UNCHANGED <<apps, history>> /\ sup.app \in Names
      BY <1>0, <1>1, <1>3 DEF StopRead, ExitRead, storeVars, TaskReady, At
    <2>2. Row \in App
      BY <1>0, <2>1 DEF Row, StoreTypeOK
    <2>3. Exited(Row, sup.code).id = Row.id
      BY <2>2 DEF Exited, App
    <2>4. /\ sup'.row = Row \/ sup'.row = Exited(Row, sup.code)
          /\ sup'.pc = "exitClose" \/ (running[sup.app] # None /\ sup'.child = running[sup.app])
      BY <1>0, <1>1, <1>3 DEF StopRead, ExitRead, Task
    <2>5. sup'.row.id = Row.id
      BY <2>3, <2>4
    <2> QED BY <1>3, <2>1, <2>4, <2>5
  <1>4. CASE StopMark
    <2>1. sup.pc = "stopMark" /\ sup.row \in App
      BY <1>0, <1>4 DEF StopMark, At, TaskReady
    <2>2. InState(sup.row, "Stopping").id = sup.row.id
      BY <2>1 DEF InState, App
    <2>3. /\ sup'.row = InState(sup.row, "Stopping") /\ sup'.child = sup.child /\ sup'.pc = "kill"
          /\ UNCHANGED history
      BY <1>0, <1>1, <1>4 DEF StopMark, Save, Task
    <2> QED BY <1>4, <2>1, <2>2, <2>3
  <1>5. CASE Kill
    BY <1>0, <1>5 DEF Kill, At, storeVars, Task
  <1>6. CASE Receive
    <2>1. Head(queue) \in Message
      BY <1>0, <1>6 DEF Receive
    <2>2. Handler(Head(queue).kind) \notin {"stopMark", "kill", "closeRun", "exitClose"}
      BY <2>1 DEF Handler, Message
    <2> QED BY <1>0, <1>6, <2>2 DEF Receive, Task
  <1>7. CASE SupervisorNext /\ ~Receive /\ ~StopRead /\ ~ExitRead /\ ~StopMark /\ ~Kill
    BY <1>0, <1>1, <1>2, <1>7 DEF SupervisorNext, Work, Tick, StatementFails, Restore, NextApp,
       LoopEnds, StartCheck, StartDone, StartFailed, RestoreFail, CloseRun, StopSave, RestartRead,
       HealthRead, ProbePasses, ProbeFails, ExitClose, ExitSave, Goto, Task
  <1>8. CASE \E r \in Requests : RequestNext(r)
    BY <1>8, RequestsKeepSupervisor DEF Inv, TypeOK, RequestNext
  <1>9. ~Crash
    BY DEF Crash, BootTask, IdleTask
  <1> QED BY <1>3, <1>4, <1>5, <1>6, <1>7, <1>8, <1>9
          DEF Next, CallNext, ProcessNext, LibrarySend, vars, supVars

LEMMA NextKeepsStopOpen ==
  ASSUME CloseInv, [Next]_vars
  PROVE  StopOpen'
  <1>0. /\ SupervisorTypeOK /\ StoreTypeOK /\ TaskReady /\ HandleOpen /\ StopOpen
    BY DEF CloseInv, Inv, TypeOK, RunsInv
  <1>1. CASE sup'.pc \notin {"stopMark", "kill", "closeRun"}
    BY <1>1 DEF StopOpen
  <1>2. CASE sup'.pc \in {"stopMark", "kill", "closeRun"}
    <2>1. CASE UNCHANGED sup
      <3>1. PICK id \in Ids : id = sup.row.id
        BY <1>0, <1>2, <2>1 DEF TaskReady, App
      <3>2. LastOpen(id)
        BY <1>0, <1>2, <2>1, <3>1 DEF StopOpen
      <3>3. ~CloseRun /\ ~ExitClose
        BY <1>0, <2>1, <1>2 DEF SupervisorTypeOK, CloseRun, ExitClose, At, Goto, Task
      <3>4. LastOpen(id)'
        BY <3>2, <3>3, OpenKept DEF CloseInv
      <3> QED BY <2>1, <3>1, <3>4 DEF StopOpen
    <2>2. CASE /\ StopRead \/ ExitRead
               /\ Row # None /\ UNCHANGED <<apps, history>>
               /\ sup'.row.id = Row.id
               /\ sup'.pc = "exitClose" \/ running[sup.app] # None
      <3>1. sup.app \in Names
        BY <1>0, <2>2 DEF StopRead, ExitRead, At, TaskReady
      <3>2. PICK id : id = Row.id
        OBVIOUS
      <3>3. LastOpen(id)
        BY <1>0, <1>2, <2>2, <3>1, <3>2 DEF HandleOpen, Stored, Row
      <3>4. LastOpen(id)'
        BY <2>2, <3>3 DEF LastOpen
      <3> QED BY <2>2, <3>2, <3>4 DEF StopOpen
    <2>3. CASE /\ UNCHANGED history
               /\ sup.pc \in {"stopMark", "kill"}
               /\ sup'.row.id = sup.row.id
      <3>1. PICK id : id = sup.row.id
        OBVIOUS
      <3>2. LastOpen(id)'
        BY <1>0, <2>3, <3>1 DEF StopOpen, LastOpen
      <3> QED BY <2>3, <3>1, <3>2 DEF StopOpen
    <2> QED BY <1>2, <2>1, <2>2, <2>3, StoppingStep DEF CloseInv
  <1> QED BY <1>1, <1>2

------------------------------------------------------------------------------

LEMMA NextKeepsClose ==
  ASSUME CloseInv, [Next]_vars
  PROVE  CloseInv'
  BY NextKeepsInv, NextKeepsIds, NextKeepsHandles, NextKeepsTask, NextKeepsRunsHaveApp,
     NextKeepsHandleOpen, NextKeepsStartOpen, NextKeepsStopOpen DEF CloseInv, RunsInv

LEMMA InitClose ==
  ASSUME Init
  PROVE  CloseInv
  <1>1. Inv /\ IdInv /\ HandleInv
    BY InitInv, InitOwners, EmptyHandles DEF Init
  <1>2. RunsHaveApp
    <2>1. PICK num \in Numbering, bin \in [Installed -> Hashes],
               state \in [Installed -> InitStates], health \in [Installed -> InitHealth],
               policy \in [Installed -> InitPolicies], env \in [Installed -> Overrides \cup {None}] :
            /\ apps = [n \in Names |->
                         IF n \in Installed
                           THEN InitialRow(n, num[n], bin[n], state[n], health[n], policy[n], env[n])
                           ELSE None]
            /\ history = [id \in Ids |->
                            IF \E n \in Installed : num[n] = id /\ state[n] = "Running"
                              THEN << [pid |-> 0, reason |-> None] >> ELSE << >>]
      BY DEF Init
    <2>2. SUFFICES ASSUME NEW id \in Ids, history[id] # << >> PROVE HasId(id)
      BY DEF RunsHaveApp
    <2>3. PICK n \in Installed : num[n] = id
      BY <2>1, <2>2
    <2>4. n \in Names /\ apps[n] \in App /\ apps[n].id = id
      BY <2>1, <2>3, InstalledRow, ServerAssumption
    <2> QED BY <2>4, NoneIsNoApp DEF HasId, Stored
  <1>3. HandleOpen /\ StartOpen /\ StopOpen /\ TaskInv
    <2>1. \A n \in Names : running[n] = None
      BY DEF Init
    <2>2. call[Super].pc = "idle" /\ sup.pc = "restore" /\ sup.row = None
      BY DEF Init, Callers, IdleCall, BootTask, IdleTask
    <2> QED BY <2>1, <2>2 DEF HandleOpen, StartOpen, StopOpen, TaskInv, OwnRow, StopFree, Stored
  <1> QED BY <1>1, <1>2, <1>3 DEF CloseInv, RunsInv

LEMMA CloseInvariance == Spec => []CloseInv
  BY InitClose, NextKeepsClose, PTL DEF Spec

\* handle_stop never closes a run that is closed already, whatever starts past
\* the supervisor, deletions, new apps of the name, failures and ends of the
\* server do to the history while it holds the handle.
THEOREM StopsCloseOpenRuns == Spec => []RunClosedOnce
  <1>1. CloseInv => RunClosedOnce
    BY DEF CloseInv, RunsInv, StopOpen, LastOpen, RunClosedOnce
  <1> QED BY <1>1, CloseInvariance, PTL

------------------------------------------------------------------------------
\* What the history says of the processes.

\* Every run of this server is of a process that it spawned, and of no other run,
RunsSpawned ==
  \A id \in Ids : \A i \in DOMAIN history[id] :
    history[id][i].pid # 0 => proc[history[id][i].pid] # None

RunsOnce ==
  \A id, jd \in Ids : \A i \in DOMAIN history[id], j \in DOMAIN history[jd] :
    history[id][i].pid # 0 /\ history[id][i].pid = history[jd][j].pid => id = jd /\ i = j

\* it is closed after the process was waited for, and right after.
ClosedReaped ==
  \A id \in Ids : \A i \in DOMAIN history[id] :
    history[id][i].pid # 0 /\ history[id][i].reason # None => history[id][i].pid \in Reaped

ReapedClosed ==
  crashes = 0 => \A id \in Ids : \A i \in DOMAIN history[id] :
    history[id][i].pid \in Reaped /\ history[id][i].reason = None =>
      sup.pc = "closeRun" /\ sup.child = history[id][i].pid

\* The latest run of the app is that of process p, and open.
LatestIs(id, p) ==
  history[id] # << >> /\ history[id][Len(history[id])] = [pid |-> p, reason |-> None]

\* So it is as long as the supervisor has the handle: from the moment that
\* start::execute has recorded the run, in the map and while it stops the app.
SpawnUnrecorded ==
  call[Super].pc = "record" =>
    \A id \in Ids : \A i \in DOMAIN history[id] : history[id][i].pid # call[Super].child

StartLatest ==
  call[Super].pc \in {"commit", "done"} =>
    apps[sup.app] # None /\ LatestIs(apps[sup.app].id, call[Super].child)

HandleLatest ==
  \A n \in Names : running[n] # None => apps[n] # None /\ LatestIs(apps[n].id, running[n])

StopLatest ==
  sup.pc \in {"stopMark", "kill", "closeRun"} => LatestIs(sup.row.id, sup.child)

CloseReaped == sup.pc = "closeRun" => sup.child \in Reaped

Accounts ==
  /\ RunsSpawned /\ RunsOnce /\ ClosedReaped /\ ReapedClosed
  /\ SpawnUnrecorded /\ StartLatest /\ HandleLatest /\ StopLatest /\ CloseReaped

AccountInv == CloseInv /\ TrackInv /\ NoDirectStart /\ Accounts

------------------------------------------------------------------------------
\* What a step does to processes and to runs.

\* Processes stay, and only a kill or the end of the server waits for one.
LEMMA ReapedStep ==
  ASSUME Undisturbed, TrackInv, [Next]_vars
  PROVE  /\ \A p \in Pids : proc[p] # None => proc'[p] # None
         /\ Reaped \subseteq Reaped'
         /\ \/ Reaped' = Reaped
            \/ Kill /\ Reaped' = Reaped \cup {sup.child}
            \/ Crash
  <1>0. HostTypeOK /\ SupervisorTypeOK /\ TaskReady
    BY DEF TrackInv, Inv, TypeOK
  <1>1. CASE UNCHANGED proc
    BY <1>1 DEF Reaped
  <1>2. CASE SupervisorNext
    <2>1. CASE Kill
      <3>1. Reaped' = Reaped \cup {sup.child}
        BY <2>1, KillReaps
      <3>2. ProcKept
        BY <1>0, <1>2, SupervisorKeepsHost DEF SupervisorNext, SupervisorStep
      <3> QED BY <2>1, <3>1, <3>2 DEF ProcKept
    <2>2. CASE ~Kill
      <3>1. UNCHANGED proc
        BY <1>2, <2>2 DEF SupervisorNext, Work, Receive, Tick, StatementFails, Restore, NextApp,
           LoopEnds, StartCheck, StartDone, StartFailed, RestoreFail, StopRead, StopMark, CloseRun,
           StopSave, RestartRead, HealthRead, ProbePasses, ProbeFails, ExitRead, ExitClose,
           ExitSave, hostVars
      <3> QED BY <1>1, <3>1
    <2> QED BY <2>1, <2>2
  <1>3. CASE \E c \in Callers : CallNext(c)
    <2>1. PICK c \in Callers : StartStep(c)
      BY <1>3 DEF CallNext
    <2>2. Reaped' = Reaped
      BY <1>0, <2>1, HostKeepsReaped
    <2>3. CASE StartSpawn(c)
      <3>1. PICK p \in Pids : Spawn(p, call[c].row)
        BY <2>3 DEF StartSpawn
      <3>2. \A q \in Pids : proc[q] # None => proc'[q] = proc[q]
        BY <1>0, <3>1 DEF Spawn, Fresh, HostTypeOK
      <3> QED BY <2>2, <3>2
    <2>4. CASE ~StartSpawn(c)
      BY <1>1, <2>1, <2>4 DEF StartStep, StartRead, StartMark, SpawnFails, StartRecord,
         StartCommit, StartRefused, hostVars
    <2> QED BY <2>3, <2>4
  <1>4. CASE \E p \in Pids : ProcessNext(p)
    <2>1. PICK p \in Pids : ProcessNext(p)
      BY <1>4
    <2>2. Reaped' = Reaped /\ NoneReaped
      BY <1>0, <2>1, HostKeepsReaped, ProcessesReapNone
    <2>3. /\ proc[p] # None /\ proc[p].st # "reaped"
          /\ \A q \in Pids \ {p} : proc'[q] = proc[q]
      BY <1>0, <2>1 DEF ProcessNext, Listen, Exit, HostTypeOK, Live
    <2> QED BY <2>2, <2>3 DEF NoneReaped
  <1>5. CASE \E r \in Requests : RequestNext(r)
    BY <1>1, <1>5 DEF RequestNext, Begin, Proceed, CreateCheck, DeleteCheck, DeployCheck, EnvRead,
       StopCheck, RestartCheck, ApiStart, CreateSetup, CreateSave, DeleteFiles, DeleteHistory,
       DeleteRow, DeployWrite, DeployBusy, DeploySave, EnvSave, SaveRow, Send, Abandon, hostVars,
       RemoveDir, WriteBinary
  <1>6. CASE Crash
    <2> SUFFICES \A p \in Pids : proc[p] # None =>
                   /\ proc'[p] # None
                   /\ proc[p].st = "reaped" => proc'[p].st = "reaped"
      BY <1>6 DEF Reaped
    <2> TAKE p \in Pids
    <2> HAVE proc[p] # None
    <2> DEFINE new == [[proc[p] EXCEPT !.st = "reaped"] EXCEPT !.code = None]
    <2>1. new \in Process /\ new.st = "reaped"
      BY <1>0 DEF HostTypeOK, Process
    <2>2. proc'[p] \in {proc[p], new}
      BY <1>6 DEF Crash
    <2> QED BY <2>1, <2>2, NoneIsNoProcess
  <1>7. CASE LibrarySend \/ UNCHANGED vars
    BY <1>1, <1>7 DEF LibrarySend, vars, hostVars
  <1> QED BY <1>2, <1>3, <1>4, <1>5, <1>6, <1>7 DEF Next

\* A run is recorded of the child that has just been spawned, or closed as the
\* latest of the app that is being stopped.
LEMMA RunsStep ==
  ASSUME AccountInv, [Next]_vars, NEW id \in Ids
  PROVE  \/ history'[id] = history[id]
         \/ /\ StartRecord(Super) /\ call[Super].row.id = id
            /\ history'[id] = Append(history[id], [pid |-> call[Super].child, reason |-> None])
         \/ /\ CloseRun /\ sup.row.id = id
            /\ history'[id] = ClosedRun(history[id], Len(history[id]), "Stopped by user")
  <1>0. StoreTypeOK /\ TaskReady /\ Inv /\ NoDirectStart /\ Untouched
    BY DEF AccountInv, TrackInv, Inv, TypeOK
  <1>1. ~ExitClose /\ \A r \in Requests : ~DeleteHistory(r)
    BY <1>0 DEF ExitClose, At, DeleteHistory, ReqAt, Untouched, NoDeletes
  <1>2. CASE CloseRun
    BY <1>0, <1>2 DEF CloseRun, CloseLatestRun, At, TaskReady, StoreTypeOK
  <1>3. CASE \E c \in Callers : StartRecord(c)
    <2>1. PICK c \in Callers : StartRecord(c)
      BY <1>3
    <2>2. c = Super
      BY <1>0, <2>1 DEF StartRecord, NoDirectStart, Callers
    <2> QED BY <1>0, <2>1, <2>2, RecordAppends
  <1> QED BY <1>1, <1>2, <1>3, HistoryStep

\* A run is as it was, or new, or the one that is being closed.
Stays(id, i) == i \in DOMAIN history[id] /\ history'[id][i] = history[id][i]

Appears(id, i) ==
  /\ StartRecord(Super) /\ call[Super].row.id = id
  /\ i = Len(history[id]) + 1
  /\ history'[id][i].pid = call[Super].child /\ history'[id][i].reason = None

Closes(id, i) ==
  /\ CloseRun
  /\ i \in DOMAIN history[id]
  /\ history[id][i].pid = sup.child /\ history[id][i].reason = None
  /\ history'[id][i].pid = sup.child /\ history'[id][i].reason = "Stopped by user"

LEMMA EntryStep ==
  ASSUME AccountInv, [Next]_vars, NEW id \in Ids, NEW i \in DOMAIN (history'[id])
  PROVE  Stays(id, i) \/ Appears(id, i) \/ Closes(id, i)
  <1>0. history[id] \in Seq(Run) /\ StopLatest /\ CallsReady /\ Super \in Callers
    BY DEF AccountInv, TrackInv, Inv, TypeOK, StoreTypeOK, Accounts, Callers
  <1>1. CASE history'[id] = history[id]
    BY <1>1 DEF Stays
  <1>2. CASE /\ StartRecord(Super) /\ call[Super].row.id = id
             /\ history'[id] = Append(history[id], [pid |-> call[Super].child, reason |-> None])
    <2> DEFINE run == [pid |-> call[Super].child, reason |-> None]
    <2>1. run \in Run
      BY <1>0, <1>2 DEF StartRecord, CallsReady, Run
    <2>2. history'[id] = Append(history[id], run)
      BY <1>2
    <2> HIDE DEF run
    <2>3. i \in 1 .. Len(history[id]) + 1
      BY <1>0, <2>1, <2>2, AppendProperties
    <2>4. /\ \A k \in 1 .. Len(history[id]) : history'[id][k] = history[id][k]
          /\ history'[id][Len(history[id]) + 1] = run
      BY <1>0, <2>1, <2>2, AppendProperties
    <2>5. CASE i = Len(history[id]) + 1
      <3>1. run.pid = call[Super].child /\ run.reason = None
        BY DEF run
      <3> QED BY <1>2, <2>4, <2>5, <3>1 DEF Appears
    <2>6. CASE i \in 1 .. Len(history[id])
      BY <1>0, <2>4, <2>6 DEF Stays
    <2> QED BY <1>0, <2>3, <2>5, <2>6
  <1>3. CASE /\ CloseRun /\ sup.row.id = id
             /\ history'[id] = ClosedRun(history[id], Len(history[id]), "Stopped by user")
    <2>1. LatestIs(id, sup.child)
      BY <1>0, <1>3 DEF StopLatest, CloseRun, At
    <2>2. PICK last, child : last = Len(history[id]) /\ child = sup.child
      OBVIOUS
    <2>3. history[id] # << >> /\ history[id][last] = [pid |-> child, reason |-> None]
      BY <2>1, <2>2 DEF LatestIs
    <2>4. history'[id] = [history[id] EXCEPT ![last].reason = "Stopped by user"]
      BY <1>3, <2>2, <2>3 DEF ClosedRun
    <2>5. /\ DOMAIN (history'[id]) = DOMAIN history[id]
          /\ \A k \in DOMAIN history[id] : k # last => history'[id][k] = history[id][k]
      BY <2>4
    <2>6. CASE i = last
      <3>1. history'[id][i] = [[pid |-> child, reason |-> None] EXCEPT !.reason = "Stopped by user"]
        BY <2>3, <2>4, <2>5, <2>6
      <3>2. history'[id][i].pid = child /\ history'[id][i].reason = "Stopped by user"
        BY <3>1
      <3>3. history[id][i].pid = child /\ history[id][i].reason = None
        BY <2>3, <2>6
      <3> QED BY <1>3, <2>2, <2>3, <2>5, <2>6, <3>2, <3>3 DEF Closes
    <2> QED BY <2>5, <2>6 DEF Stays
  <1> QED BY <1>1, <1>2, <1>3, RunsStep

\* Nobody else touches the latest run of an app.
LEMMA LatestKept ==
  ASSUME AccountInv, [Next]_vars, NEW id \in Ids, NEW p, LatestIs(id, p),
         ~ (StartRecord(Super) /\ call[Super].row.id = id), ~ (CloseRun /\ sup.row.id = id)
  PROVE  LatestIs(id, p)'
  BY RunsStep DEF LatestIs

------------------------------------------------------------------------------
\* The history, one part at a time.

LEMMA NextKeepsRunsSpawned ==
  ASSUME Undisturbed, AccountInv, [Next]_vars
  PROVE  RunsSpawned'
  <1> SUFFICES ASSUME NEW id \in Ids, NEW i \in DOMAIN (history'[id]), history'[id][i].pid # 0
               PROVE  proc'[history'[id][i].pid] # None
    BY DEF RunsSpawned
  <1>0. /\ history[id] \in Seq(Run) /\ RunsSpawned /\ CallsReady /\ TrackInv /\ Super \in Callers
        /\ history'[id] \in Seq(Run)
    BY NextKeepsInv DEF AccountInv, TrackInv, Inv, TypeOK, StoreTypeOK, Accounts, Callers
  <1>1. PICK p \in Pids : p = history'[id][i].pid
    <2>1. history'[id][i] \in Run
      BY <1>0, ElementOfSeq, LenProperties
    <2> QED BY <2>1 DEF Run
  <1>2. proc[p] # None
    <2>1. CASE Stays(id, i)
      BY <1>0, <1>1, <2>1 DEF RunsSpawned, Stays
    <2>2. CASE Appears(id, i)
      BY <1>0, <1>1, <2>2 DEF StartRecord, CallsReady, Appears
    <2>3. CASE Closes(id, i)
      BY <1>0, <1>1, <2>3 DEF RunsSpawned, Closes
    <2> QED BY <2>1, <2>2, <2>3, EntryStep
  <1> QED BY <1>0, <1>1, <1>2, ReapedStep

LEMMA NextKeepsRunsOnce ==
  ASSUME AccountInv, [Next]_vars
  PROVE  RunsOnce'
  <1> SUFFICES ASSUME NEW id \in Ids, NEW jd \in Ids,
                      NEW i \in DOMAIN (history'[id]), NEW j \in DOMAIN (history'[jd]),
                      history'[id][i].pid # 0, history'[id][i].pid = history'[jd][j].pid
               PROVE  id = jd /\ i = j
    BY DEF RunsOnce
  <1>0. RunsOnce /\ SpawnUnrecorded
    BY DEF AccountInv, Accounts
  <1>1. ASSUME NEW kd \in Ids, NEW k \in DOMAIN (history'[kd])
        PROVE  \/ k \in DOMAIN history[kd] /\ history[kd][k].pid = history'[kd][k].pid
               \/ /\ StartRecord(Super) /\ history'[kd][k].pid = call[Super].child
                  /\ k = Len(history[kd]) + 1 /\ call[Super].row.id = kd
    BY <1>1, EntryStep DEF Stays, Appears, Closes
  <1>2. CASE i \in DOMAIN history[id] /\ j \in DOMAIN history[jd]
    <2>1. history[id][i].pid = history'[id][i].pid /\ history[jd][j].pid = history'[jd][j].pid
      <3>1. ASSUME NEW kd \in Ids, NEW k \in DOMAIN history[kd] PROVE k # Len(history[kd]) + 1
        BY DEF AccountInv, TrackInv, Inv, TypeOK, StoreTypeOK
      <3> QED BY <1>1, <1>2, <3>1
    <2> QED BY <1>0, <1>2, <2>1 DEF RunsOnce
  <1>3. ASSUME NEW kd \in Ids, NEW k \in DOMAIN history[kd], StartRecord(Super)
        PROVE  history[kd][k].pid # call[Super].child
    BY <1>0, <1>3 DEF SpawnUnrecorded, StartRecord
  <1>4. CASE i \notin DOMAIN history[id] \/ j \notin DOMAIN history[jd]
    BY <1>1, <1>3, <1>4
  <1> QED BY <1>2, <1>4

LEMMA NextKeepsClosedReaped ==
  ASSUME Undisturbed, AccountInv, [Next]_vars
  PROVE  ClosedReaped'
  <1> SUFFICES ASSUME NEW id \in Ids, NEW i \in DOMAIN (history'[id]),
                      history'[id][i].pid # 0, history'[id][i].reason # None
               PROVE  history'[id][i].pid \in Reaped'
    BY DEF ClosedReaped
  <1>0. ClosedReaped /\ CloseReaped /\ TrackInv
    BY DEF AccountInv, Accounts
  <1>1. history'[id][i].pid \in Reaped
    <2>1. CASE Stays(id, i)
      BY <1>0, <2>1 DEF ClosedReaped, Stays
    <2>2. CASE Closes(id, i)
      BY <1>0, <2>2 DEF CloseReaped, CloseRun, At, Closes
    <2> QED BY <2>1, <2>2, EntryStep DEF Appears
  <1> QED BY <1>0, <1>1, ReapedStep

\* The supervisor closes the run as its next step after the wait.
LEMMA ClosesNext ==
  ASSUME Undisturbed, AccountInv, [Next]_vars, sup.pc = "closeRun"
  PROVE  UNCHANGED sup \/ CloseRun \/ Crash
  <1>1. CASE SupervisorNext
    BY <1>1 DEF SupervisorNext, Work, Receive, Tick, StatementFails, Restore, NextApp, LoopEnds,
       StartCheck, StartDone, StartFailed, RestoreFail, StopRead, StopMark, Kill, StopSave,
       RestartRead, HealthRead, ProbePasses, ProbeFails, ExitRead, ExitClose, ExitSave, At,
       Undisturbed
  <1>2. CASE \E r \in Requests : RequestNext(r)
    BY <1>2, RequestsKeepSupervisor DEF AccountInv, TrackInv, Inv, TypeOK, RequestNext
  <1> QED BY <1>1, <1>2 DEF Next, CallNext, ProcessNext, LibrarySend, vars, supVars

LEMMA NextKeepsReapedClosed ==
  ASSUME Undisturbed, AccountInv, [Next]_vars
  PROVE  ReapedClosed'
  <1> SUFFICES ASSUME crashes' = 0, NEW id \in Ids, NEW i \in DOMAIN (history'[id]),
                      history'[id][i].pid \in Reaped', history'[id][i].reason = None
               PROVE  sup'.pc = "closeRun" /\ sup'.child = history'[id][i].pid
    BY DEF ReapedClosed
  <1>0. /\ ReapedClosed /\ RunsOnce /\ TrackInv /\ Owned /\ Super \in Callers /\ sup \in Task
        /\ crashes \in Nat
    BY ServerAssumption DEF AccountInv, Accounts, TrackInv, HandleInv, Callers, Inv, TypeOK,
       SupervisorTypeOK
  <1>1. ~Crash /\ crashes = 0
    <2>1. Crash => crashes' = crashes + 1
      BY DEF Crash
    <2>2. ~Crash
      BY <1>0, <2>1
    <2>3. UNCHANGED crashes
      BY <2>2 DEF Next, SupervisorNext, CallNext, RequestNext, ProcessNext, LibrarySend, vars
    <2> QED BY <2>2, <2>3
  <1>2. PICK p \in Pids : p = history'[id][i].pid
    BY DEF Reaped
  <1>3. CASE Appears(id, i)
    <2>0. StartRecord(Super) /\ p = call[Super].child
      BY <1>2, <1>3 DEF Appears
    <2>1. p # None
      BY <1>2, AppModelAssumption DEF Pids
    <2>2. p \notin Reaped
      BY <1>0, <2>0, <2>1 DEF Owned, Unreaped, Reaped
    <2>3. UNCHANGED Reaped
      BY <2>0 DEF StartRecord, hostVars, Reaped
    <2> QED BY <1>2, <2>2, <2>3
  <1>4. CASE Stays(id, i)
    <2>0. i \in DOMAIN history[id] /\ history'[id][i] = history[id][i]
      BY <1>4 DEF Stays
    <2>1. CASE p \in Reaped
      <3>1. sup.pc = "closeRun" /\ sup.child = p
        BY <1>0, <1>1, <1>2, <2>0, <2>1 DEF ReapedClosed
      <3>2. ~CloseRun
        <4> SUFFICES ASSUME CloseRun PROVE FALSE
          OBVIOUS
        <4>1. sup.row.id \in Ids /\ LatestIs(sup.row.id, p) /\ history[sup.row.id] \in Seq(Run)
          BY <3>1 DEF AccountInv, TrackInv, Inv, TypeOK, TaskReady, Accounts, StopLatest, App,
             StoreTypeOK
        <4>2. PICK k \in DOMAIN history[sup.row.id] :
                 k = Len(history[sup.row.id]) /\ history[sup.row.id][k].pid = p
          BY <4>1 DEF LatestIs
        <4>3. id = sup.row.id /\ i = k
          BY <1>0, <1>2, <2>0, <4>1, <4>2 DEF RunsOnce, Pids
        <4>4. history'[id] = ClosedRun(history[id], Len(history[id]), "Stopped by user")
          BY <4>1, <4>3 DEF CloseRun, CloseLatestRun, AccountInv, TrackInv, Inv, TypeOK, StoreTypeOK
        <4>5. history'[id][i].reason = "Stopped by user"
          BY <4>1, <4>2, <4>3, <4>4 DEF ClosedRun, Run, LatestIs
        <4> QED BY <4>5, NoneIsNoReason DEF ExitReason
      <3> QED BY <1>1, <1>2, <3>1, <3>2, ClosesNext
    <2>2. CASE p \notin Reaped
      <3>1. Kill /\ p = sup.child
        BY <1>0, <1>1, <1>2, <2>2, ReapedStep
      <3> QED BY <1>0, <1>2, <3>1 DEF Kill, Task
    <2> QED BY <2>1, <2>2
  <1>5. ~Closes(id, i)
    BY NoneIsNoReason DEF Closes, ExitReason
  <1> QED BY <1>3, <1>4, <1>5, EntryStep

\* A new process is none that a run is of already.
LEMMA NextKeepsSpawnUnrecorded ==
  ASSUME AccountInv, [Next]_vars
  PROVE  SpawnUnrecorded'
  <1> SUFFICES ASSUME call'[Super].pc = "record", NEW id \in Ids, NEW i \in DOMAIN (history'[id])
               PROVE  history'[id][i].pid # call'[Super].child
    BY DEF SpawnUnrecorded
  <1>0. /\ RunsSpawned /\ SpawnUnrecorded /\ SupervisorTypeOK /\ StartTypeOK /\ Super \in Callers
        /\ UNCHANGED sup
        /\ \/ StartSpawn(Super)
           \/ call'[Super].child = call[Super].child /\ call[Super].pc = "record"
           \/ StartRecord(Super)
    BY RecordedStep DEF AccountInv, TrackInv, Accounts, Inv, TypeOK, Callers
  <1>1. ~StartRecord(Super)
    BY <1>0 DEF StartRecord, Continue, StartTypeOK, Call
  <1>2. ~CloseRun
    BY <1>0 DEF CloseRun, At, Goto, SupervisorTypeOK, Task
  <1>3. i \in DOMAIN history[id] /\ history[id][i].pid = history'[id][i].pid
    BY <1>1, <1>2, EntryStep DEF Stays, Appears, Closes
  <1>4. CASE StartSpawn(Super)
    <2>1. PICK p \in Pids : Fresh(p) /\ call' = [call EXCEPT ![Super].pc = "record", ![Super].child = p]
      BY <1>4 DEF StartSpawn, Spawn
    <2>2. call'[Super].child = p
      BY <1>0, <2>1 DEF StartTypeOK, Call
    <2> QED BY <1>0, <1>3, <2>1, <2>2 DEF RunsSpawned, Fresh, Pids
  <1> QED BY <1>0, <1>1, <1>3, <1>4 DEF SpawnUnrecorded

LEMMA NextKeepsStartLatest ==
  ASSUME Undisturbed, AccountInv, [Next]_vars
  PROVE  StartLatest'
  <1> SUFFICES ASSUME call'[Super].pc \in {"commit", "done"}
               PROVE  \E id, p : /\ apps'[sup'.app] # None /\ apps'[sup'.app].id = id
                                 /\ p = call'[Super].child /\ LatestIs(id, p)'
    BY DEF StartLatest
  <1>0. /\ Inv /\ StoreTypeOK /\ TaskReady /\ Rooted /\ StartLatest /\ Owned /\ UNCHANGED sup
        /\ call'[Super].child = call[Super].child /\ Super \in Callers /\ NoDeletes
        /\ StartRecord(Super) \/ call[Super].pc \in {"commit", "done"}
    BY RecordedStep DEF AccountInv, TrackInv, Inv, TypeOK, Accounts, HandleInv, Callers, Untouched
  <1>1. sup.pc = "starting" /\ sup.app \in Names /\ call[Super].app = sup.app
    BY <1>0 DEF StartRecord, Owned, TaskReady
  <1>2. CASE StartRecord(Super)
    <2>1. PICK id \in Ids, pid \in Pids :
            /\ call[Super].row \in App /\ id = call[Super].row.id /\ pid = call[Super].child
            /\ history'[id] = Append(history[id], [pid |-> pid, reason |-> None])
      BY <1>0, <1>2, RecordAppends
    <2>2. call[Super].row \in KeptRows /\ call[Super].row.name = sup.app
      BY <1>0, <1>1, <2>1, NoneIsNoApp DEF AccountInv, TrackInv, CopiesKept, RowsIn, Owned
    <2>3. apps[sup.app] # None /\ apps[sup.app].id = id /\ UNCHANGED apps
      BY <1>2, <2>1, <2>2 DEF KeptRows, Kept, StartRecord, InsertRun
    <2> DEFINE run == [pid |-> pid, reason |-> None]
    <2>4. history[id] \in Seq(Run) /\ run \in Run
      BY <1>0 DEF StoreTypeOK, Run
    <2>5. /\ Append(history[id], run) # << >>
          /\ Append(history[id], run)[Len(Append(history[id], run))] = run
      BY <2>4
    <2>6. LatestIs(id, pid)'
      BY <2>1, <2>5 DEF LatestIs
    <2> QED BY <1>0, <2>1, <2>3, <2>6
  <1>3. CASE call[Super].pc \in {"commit", "done"}
    <2>1. PICK row \in App : row = apps[sup.app] /\ LatestIs(row.id, call[Super].child)
      BY <1>0, <1>1, <1>3 DEF StartLatest, StoreTypeOK
    <2>2. row.name = sup.app /\ Kept(row)
      BY <1>0, <1>1, <2>1, NoneIsNoApp DEF Rooted, Kept
    <2>3. apps'[sup.app] # None /\ apps'[sup.app].id = row.id
      BY <1>0, <2>2, AppsStay
    <2>4. PICK id, p : id \in Ids /\ id = row.id /\ p = call[Super].child
      BY DEF App
    <2>5. ~StartRecord(Super) /\ ~CloseRun
      BY <1>1, <1>3 DEF StartRecord, CloseRun, At
    <2>6. LatestIs(id, p)'
      BY <2>1, <2>4, <2>5, LatestKept
    <2> QED BY <1>0, <2>3, <2>4, <2>6
  <1> QED BY <1>0, <1>2, <1>3

\* While the map holds a process of the app, no run of the app is added or closed.
LEMMA NextKeepsHandleLatest ==
  ASSUME Undisturbed, AccountInv, [Next]_vars
  PROVE  HandleLatest'
  <1> SUFFICES ASSUME NEW n \in Names, running'[n] # None
               PROVE  \E id, p : /\ apps'[n] # None /\ apps'[n].id = id
                                 /\ p = running'[n] /\ LatestIs(id, p)'
    BY DEF HandleLatest
  <1>0. /\ Inv /\ CloseInv /\ StoreTypeOK /\ SupervisorTypeOK /\ TaskReady /\ Rooted /\ SlotFree
        /\ StartLatest /\ HandleLatest /\ Owned /\ NoDeletes /\ Super \in Callers /\ CallsReady
    BY DEF AccountInv, TrackInv, Inv, TypeOK, Accounts, HandleInv, Untouched, Callers
  <1>1. CASE StartDone /\ running[n] = None
    <2>1. /\ n = sup.app /\ call[Super].pc = "done" /\ UNCHANGED <<apps, history>>
          /\ running'[n] = call[Super].child
      BY <1>0, <1>1 DEF StartDone, storeVars, SupervisorTypeOK
    <2>2. PICK id, p : id = apps[n].id /\ p = call[Super].child
      OBVIOUS
    <2>3. apps[n] # None /\ LatestIs(id, p) /\ id \in Ids
      BY <1>0, <2>1, <2>2 DEF StartLatest, StoreTypeOK, App
    <2>4. LatestIs(id, p)'
      BY <2>1, <2>3 DEF LatestIs
    <2> QED BY <2>1, <2>2, <2>3, <2>4
  <1>2. CASE running[n] # None
    <2>1. running'[n] = running[n]
      <3> SUFFICES ASSUME running'[n] # running[n] PROVE FALSE
        OBVIOUS
      <3>1. StartDone
        BY <1>0, OnlyStartDoneAdds
      <3>2. n = sup.app /\ sup.pc = "starting"
        BY <1>0, <3>1 DEF StartDone, At, SupervisorTypeOK
      <3> QED BY <1>0, <1>2, <3>2 DEF SlotFree
    <2>2. PICK row \in App : row = apps[n] /\ LatestIs(row.id, running[n])
      BY <1>0, <1>2 DEF HandleLatest, StoreTypeOK
    <2>3. row.name = n /\ Kept(row) /\ n \in Stored
      BY <1>0, <2>2, NoneIsNoApp DEF Rooted, Kept, Stored
    <2>4. apps'[n] # None /\ apps'[n].id = row.id
      BY <1>0, <2>3, AppsStay
    <2>5. PICK id, p : id \in Ids /\ id = row.id /\ p = running[n]
      BY DEF App
    <2>6. ~ (CloseRun /\ sup.row.id = id)
      BY <1>0, <1>2, <2>2, <2>3, <2>5, ClosesNoHandle
    <2>7. ~ (StartRecord(Super) /\ call[Super].row.id = id)
      <3> SUFFICES ASSUME StartRecord(Super), call[Super].row.id = id PROVE FALSE
        OBVIOUS
      <3>1. call[Super].row \in App /\ sup.pc = "starting" /\ call[Super].app = sup.app
        BY <1>0 DEF StartRecord, CallsReady, Owned
      <3>2. call[Super].row \in HomeRows /\ call[Super].row.name = sup.app
        BY <1>0, <3>1, CopiesAtHome, NoneIsNoApp DEF CloseInv, RowsIn, Owned
      <3>3. n = sup.app
        BY <2>2, <2>3, <2>5, <3>2 DEF HomeRows
      <3> QED BY <1>0, <1>2, <3>1, <3>3 DEF SlotFree
    <2>8. LatestIs(id, p)'
      BY <2>2, <2>5, <2>6, <2>7, LatestKept
    <2> QED BY <2>1, <2>4, <2>5, <2>8
  <1> QED BY <1>0, <1>1, <1>2, OnlyStartDoneAdds

\* The map hands the run to handle_stop with the process.
LEMMA NextKeepsStopLatest ==
  ASSUME AccountInv, [Next]_vars
  PROVE  StopLatest'
  <1> SUFFICES ASSUME sup'.pc \in {"stopMark", "kill", "closeRun"}
               PROVE  \E id, p : id = sup'.row.id /\ p = sup'.child /\ LatestIs(id, p)'
    BY DEF StopLatest
  <1>0. /\ Inv /\ SupervisorTypeOK /\ TaskReady /\ HandleLatest /\ StopLatest /\ Owned
    BY DEF AccountInv, TrackInv, Inv, TypeOK, Accounts, HandleInv
  <1>1. CASE UNCHANGED sup
    <2>1. PICK id, p : id \in Ids /\ id = sup.row.id /\ p = sup.child
      BY <1>0, <1>1 DEF TaskReady, App
    <2>2. LatestIs(id, p)
      BY <1>0, <1>1, <2>1 DEF StopLatest
    <2>3. ~CloseRun /\ ~StartRecord(Super)
      BY <1>0, <1>1 DEF SupervisorTypeOK, CloseRun, At, Goto, Task, StartRecord, Owned
    <2>4. LatestIs(id, p)'
      BY <2>1, <2>2, <2>3, LatestKept
    <2> QED BY <1>1, <2>1, <2>4
  <1>2. CASE /\ StopRead \/ ExitRead
             /\ Row # None /\ UNCHANGED <<apps, history>>
             /\ sup'.row.id = Row.id
             /\ sup'.pc = "exitClose" \/ (running[sup.app] # None /\ sup'.child = running[sup.app])
    <2>1. sup.app \in Names
      BY <1>0, <1>2 DEF StopRead, ExitRead, At, TaskReady
    <2>2. PICK id, p : id = Row.id /\ p = running[sup.app]
      OBVIOUS
    <2>3. LatestIs(id, p)
      BY <1>0, <1>2, <2>1, <2>2 DEF HandleLatest, Row
    <2>4. LatestIs(id, p)'
      BY <1>2, <2>3 DEF LatestIs
    <2> QED BY <1>2, <2>2, <2>4
  <1>3. CASE /\ UNCHANGED history
             /\ sup.pc \in {"stopMark", "kill"}
             /\ sup'.row.id = sup.row.id /\ sup'.child = sup.child
    <2>1. PICK id, p : id = sup.row.id /\ p = sup.child
      OBVIOUS
    <2>2. LatestIs(id, p)
      BY <1>0, <1>3, <2>1 DEF StopLatest
    <2>3. LatestIs(id, p)'
      BY <1>3, <2>2 DEF LatestIs
    <2> QED BY <1>3, <2>1, <2>3
  <1> QED BY <1>0, <1>1, <1>2, <1>3, StoppingStep

LEMMA NextKeepsCloseReaped ==
  ASSUME Undisturbed, AccountInv, [Next]_vars
  PROVE  CloseReaped'
  <1> SUFFICES ASSUME sup'.pc = "closeRun" PROVE sup'.child \in Reaped'
    BY DEF CloseReaped
  <1>0. Inv /\ sup \in Task /\ TrackInv /\ CloseReaped
    BY DEF AccountInv, TrackInv, Inv, TypeOK, SupervisorTypeOK, Accounts
  <1>1. ~StopRead /\ ~ExitRead
    <2>1. ~Finish
      BY FinishType DEF Inv, TypeOK, AccountInv, TrackInv
    <2> QED BY <1>0, <2>1 DEF StopRead, ExitRead, Task
  <1>2. CASE UNCHANGED sup
    BY <1>0, <1>2, ReapedStep DEF CloseReaped
  <1>3. CASE Kill
    <2>1. Reaped' = Reaped \cup {sup.child}
      BY <1>0, <1>3, KillReaps
    <2>2. sup'.child = sup.child
      BY <1>0, <1>3 DEF Kill, Task
    <2> QED BY <2>1, <2>2
  <1> QED BY <1>0, <1>1, <1>2, <1>3, StoppingStep

------------------------------------------------------------------------------

LEMMA NextKeepsAccounts ==
  ASSUME Managed, AccountInv, [Next]_vars
  PROVE  AccountInv'
  <1>1. Undisturbed /\ "start" \notin ClientOps /\ StartTypeOK
    BY DEF Managed, AccountInv, TrackInv, Inv, TypeOK
  <1>2. CloseInv' /\ TrackInv' /\ NoDirectStart'
    BY <1>1, NextKeepsClose, NextKeepsTrack, NextStartsNoneDirectly DEF AccountInv
  <1> QED BY <1>1, <1>2, NextKeepsRunsSpawned, NextKeepsRunsOnce, NextKeepsClosedReaped,
          NextKeepsReapedClosed, NextKeepsSpawnUnrecorded, NextKeepsStartLatest,
          NextKeepsHandleLatest, NextKeepsStopLatest, NextKeepsCloseReaped DEF AccountInv, Accounts

LEMMA InitAccounts ==
  ASSUME Init
  PROVE  AccountInv
  <1>1. CloseInv /\ TrackInv
    BY InitClose, InitTrack
  <1>2. \A id \in Ids : \A i \in DOMAIN history[id] : history[id][i].pid = 0
    <2>1. PICK num \in Numbering, state \in [Installed -> InitStates] :
            history = [id \in Ids |->
                         IF \E n \in Installed : num[n] = id /\ state[n] = "Running"
                           THEN << [pid |-> 0, reason |-> None] >> ELSE << >>]
      BY DEF Init
    <2> TAKE id \in Ids
    <2>2. history[id] \in {<< [pid |-> 0, reason |-> None] >>, << >>}
      BY <2>1
    <2> QED BY <2>2
  <1>3. /\ Reaped = {}
        /\ \A n \in Names : running[n] = None
        /\ sup.pc = "restore"
        /\ \A c \in Callers : call[c].pc = "idle"
    BY DEF Init, Reaped, IdleCall, BootTask, IdleTask
  <1>4. NoDirectStart /\ call[Super].pc = "idle"
    BY <1>3 DEF NoDirectStart, Callers
  <1>5. RunsSpawned /\ RunsOnce /\ ClosedReaped /\ SpawnUnrecorded
    BY <1>2, <1>4 DEF RunsSpawned, RunsOnce, ClosedReaped, SpawnUnrecorded
  <1>6. ReapedClosed /\ StartLatest /\ HandleLatest /\ StopLatest /\ CloseReaped
    BY <1>3, <1>4 DEF ReapedClosed, StartLatest, HandleLatest, StopLatest, CloseReaped
  <1> QED BY <1>1, <1>4, <1>5, <1>6 DEF AccountInv, Accounts

LEMMA AccountInvariance == Managed => (Spec => []AccountInv)
  <1> SUFFICES ASSUME Managed PROVE Spec => []AccountInv
    OBVIOUS
  <1> QED BY InitAccounts, NextKeepsAccounts, PTL DEF Spec

\* The history says of every process of this server whether it has been waited
\* for, on the terms of Managed: a closed run is of a process that was, the run of
\* one that was is closed by the next time that the supervisor is quiet, unless
\* the server ended by then, and the latest run of an app that the supervisor
\* holds a process of is the open run of that process.
THEOREM HistoryTells == Managed => (Spec => []HistoryFollowsHandles)
  <1>1. AccountInv => HistoryFollowsHandles
    <2> SUFFICES ASSUME AccountInv PROVE HistoryFollowsHandles
      OBVIOUS
    <2>0. RunsSpawned /\ ClosedReaped /\ ReapedClosed /\ HandleLatest /\ StoreTypeOK
      BY DEF AccountInv, Accounts, TrackInv, Inv, TypeOK
    <2>1. ASSUME NEW id \in Ids, NEW i \in DOMAIN history[id], history[id][i].pid # 0
          PROVE  /\ history[id][i].reason # None => proc[history[id][i].pid].st = "reaped"
                 /\ Quiet /\ crashes = 0 /\ proc[history[id][i].pid].st = "reaped" =>
                      history[id][i].reason # None
      <3>1. history[id][i].pid \in Pids
        <4>1. history[id] \in Seq(Run)
          BY <2>0 DEF StoreTypeOK
        <4>2. history[id][i] \in Run
          BY <2>1, <4>1, ElementOfSeq, LenProperties
        <4> QED BY <2>1, <4>2 DEF Run
      <3>2. history[id][i].pid \in Reaped <=> proc[history[id][i].pid].st = "reaped"
        BY <2>0, <2>1, <3>1 DEF RunsSpawned, Reaped
      <3> QED BY <2>0, <2>1, <3>2 DEF ClosedReaped, ReapedClosed, Quiet
    <2>2. ASSUME NEW n \in Stored, running[n] # None
          PROVE  LatestIs(apps[n].id, running[n])
      BY <2>0, <2>2 DEF HandleLatest, Stored
    <2> QED BY <2>1, <2>2 DEF HistoryFollowsHandles, LatestIs
  <1> SUFFICES ASSUME Managed PROVE Spec => []HistoryFollowsHandles
    OBVIOUS
  <1> QED BY <1>1, AccountInvariance, PTL

==============================================================================
