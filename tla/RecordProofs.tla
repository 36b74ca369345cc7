---------------------------- MODULE RecordProofs -----------------------------
(***************************************************************************)
(* Proofs about what the columns of table apps say of processes, for every *)
(* value of the constants: the state and the pid agree with the handles    *)
(* whenever nothing is under way, and every restart after an exit is       *)
(* counted once.                                                           *)
(*                                                                         *)
(* All are about rows that are read before an await and written after it.  *)
(* They hold where requests do not write rows back, which Delegating and   *)
(* SoleWriter say.                                                         *)
(***************************************************************************)
EXTENDS RunProofs

------------------------------------------------------------------------------
\* What the rows say of the processes.

\* Statements succeed, and clients leave the rows of apps that are there to the
\* supervisor: they create apps, and have it stop and restart them.
Delegating ==
  /\ "io" \notin Faults
  /\ ClientOps \subseteq {"create", "stop", "restart"}

\* So a request never holds a row that was stored.
Delegated ==
  \A r \in Requests :
    /\ call[r].pc = "idle"
    /\ req[r].pc \in {"idle", "setup", "insert", "send"}
    /\ req[r].pc = "insert" => ~IsRunning(req[r].row)

\* An app whose process the supervisor holds is called Running, of that process.
RunningAs(n, p) == apps[n] # None /\ IsRunning(apps[n]) /\ apps[n].pid = p

HandlesAgree == \A n \in Names : running[n] # None => RunningAs(n, running[n])

\* The supervisor is about to give n a process or to write that it has none.
Restoring(n) ==
  sup.job = "boot" /\ (sup.pc = "restore" \/ \E row \in sup.todo : row.name = n)

InHand(n) ==
  \/ Restoring(n)
  \/ n = sup.app /\ sup.pc \in {"stopMark", "exitClose", "exitSave", "restoreFail"}
  \/ n = sup.app /\ sup.pc = "starting" /\ (call[Super].pc = "done" \/ sup.job = "boot")

\* So is an app that is called Running although the map has nothing of it.
RunningInHand == \A n \in Stored : IsRunning(apps[n]) => running[n] # None \/ InHand(n)

\* start::execute marks the row first and names the process last.
StartAgrees ==
  /\ call[Super].pc = "mark" => ~IsRunning(call[Super].row)
  /\ call[Super].pc = "done" => RunningAs(sup.app, call[Super].child)

Agreement == HandlesAgree /\ RunningInHand /\ StartAgrees

AgreeInv == Inv /\ IdInv /\ HandleInv /\ TaskInv /\ CopiesKept /\ Delegated /\ Agreement

------------------------------------------------------------------------------
\* Clients keep to that.

LEMMA NextKeepsDelegated ==
  ASSUME Delegating, Inv, Delegated, [Next]_vars
  PROVE  Delegated'
  <1>0. ApiTypeOK /\ StartTypeOK /\ RequestsReady
    BY DEF Inv, TypeOK
  <1>1. CASE UNCHANGED <<req, call>>
    BY <1>1 DEF Delegated
  <1>2. ASSUME UNCHANGED req, NEW new, call' = [call EXCEPT ![Super] = new]
        PROVE  Delegated'
    BY <1>0, <1>2, StartAssumption DEF Delegated, StartTypeOK, Callers
  <1>3. CASE SupervisorNext
    BY <1>1, <1>2, <1>3 DEF SupervisorNext, Work, Receive, Tick, StatementFails, Restore,
       NextApp, LoopEnds, StartCheck, StartDone, StartFailed, RestoreFail, StopRead, StopMark,
       Kill, CloseRun, StopSave, RestartRead, HealthRead, ProbePasses, ProbeFails, ExitRead,
       ExitClose, ExitSave, CallStart, Return
  <1>4. CASE \E c \in Callers : CallNext(c)
    <2>1. PICK c \in Callers : StartStep(c) /\ UNCHANGED req
      BY <1>4 DEF CallNext
    <2>2. call[c].pc # "idle"
      BY <2>1 DEF StartStep, StartRead, StartMark, StartSpawn, SpawnFails, StartRecord,
         StartCommit, StartRefused
    <2>3. c = Super
      BY <2>2 DEF Delegated, Callers
    <2>4. \A r \in Requests : call'[r] = call[r]
      BY <1>0, <2>1, <2>3, StartAssumption DEF StartStep, StartRead, StartMark, StartSpawn,
         SpawnFails, StartRecord, StartCommit, StartRefused, Return, Continue, StartTypeOK, Callers
    <2> QED BY <2>1, <2>4 DEF Delegated
  <1>5. CASE \E r \in Requests : RequestNext(r)
    <2>1. PICK r \in Requests : RequestNext(r)
      BY <1>5
    <2>2. ~DeleteCheck(r) /\ ~DeployCheck(r) /\ ~EnvRead(r) /\ ~ApiStart(r) /\ ~Abandon(r)
      BY DEF Delegating, DeleteCheck, DeployCheck, EnvRead, ApiStart, Abandon
    <2>3. /\ ~DeleteFiles(r) /\ ~DeleteHistory(r) /\ ~DeleteRow(r)
          /\ ~DeployWrite(r) /\ ~DeployBusy(r) /\ ~DeploySave(r) /\ ~EnvSave(r)
      BY DEF Delegated, DeleteFiles, DeleteHistory, DeleteRow, DeployWrite, DeployBusy,
         DeploySave, EnvSave, SaveRow, ReqAt
    <2>4. ASSUME NEW frame, frame.pc \in {"idle", "setup", "insert", "send"},
                 frame.pc = "insert" => ~IsRunning(frame.row), Step(r, frame), UNCHANGED call
          PROVE  Delegated'
      BY <1>0, <2>4 DEF Step, Delegated, ApiTypeOK
    <2>5. CASE Respond(r) /\ UNCHANGED call
      <3>1. IdleRequest.pc = "idle"
        BY DEF IdleRequest
      <3> QED BY <2>4, <2>5, <3>1 DEF Respond
    <2>6. CASE CreateCheck(r)
      <3>1. PICK n \in Names :
              Step(r, [IdleRequest EXCEPT !.pc = "setup", !.app = n, !.id = issued + 1])
        BY <2>6 DEF CreateCheck
      <3> DEFINE frame == [IdleRequest EXCEPT !.pc = "setup", !.app = n, !.id = issued + 1]
      <3>2. frame.pc = "setup"
        BY DEF IdleRequest
      <3>3. Step(r, frame) /\ UNCHANGED call
        BY <2>6, <3>1 DEF CreateCheck
      <3> HIDE DEF frame
      <3> QED BY <2>4, <3>2, <3>3
    <2>7. CASE CreateSetup(r)
      <3>1. PICK port \in Ports :
              Step(r, [req[r] EXCEPT !.pc = "insert", !.id = None, !.app = None,
                                     !.row = NewApp(req[r].id, req[r].app, port)])
        BY <2>7 DEF CreateSetup
      <3> DEFINE frame == [req[r] EXCEPT !.pc = "insert", !.id = None, !.app = None,
                                         !.row = NewApp(req[r].id, req[r].app, port)]
      <3>2. req[r] \in Request
        BY <1>0 DEF ApiTypeOK
      <3>3. frame.pc = "insert" /\ frame.row = NewApp(req[r].id, req[r].app, port)
        BY <3>2 DEF Request
      <3>4. ~IsRunning(frame.row)
        BY <3>3 DEF NewApp, IsRunning
      <3>5. Step(r, frame) /\ UNCHANGED call
        BY <2>7, <3>1 DEF CreateSetup
      <3> HIDE DEF frame
      <3> QED BY <2>4, <3>3, <3>4, <3>5
    <2>8. CASE StopCheck(r)
      <3>1. PICK n \in Stored :
              Step(r, [IdleRequest EXCEPT !.pc = "send", !.app = n, !.kind = "Stop"])
        BY <2>8 DEF StopCheck
      <3> DEFINE frame == [IdleRequest EXCEPT !.pc = "send", !.app = n, !.kind = "Stop"]
      <3>2. frame.pc = "send"
        BY DEF IdleRequest
      <3>3. Step(r, frame) /\ UNCHANGED call
        BY <2>8, <3>1 DEF StopCheck
      <3> HIDE DEF frame
      <3> QED BY <2>4, <3>2, <3>3
    <2>9. CASE RestartCheck(r)
      <3>1. PICK n \in Stored :
              Step(r, [IdleRequest EXCEPT !.pc = "send", !.app = n, !.kind = "Restart"])
        BY <2>9 DEF RestartCheck
      <3> DEFINE frame == [IdleRequest EXCEPT !.pc = "send", !.app = n, !.kind = "Restart"]
      <3>2. frame.pc = "send"
        BY DEF IdleRequest
      <3>3. Step(r, frame) /\ UNCHANGED call
        BY <2>9, <3>1 DEF RestartCheck
      <3> HIDE DEF frame
      <3> QED BY <2>4, <3>2, <3>3
    <2>10. CASE CreateSave(r) \/ Send(r)
      BY <2>5, <2>10 DEF CreateSave, SaveRow, Send
    <2> QED BY <2>1, <2>2, <2>3, <2>6, <2>7, <2>8, <2>9, <2>10 DEF RequestNext, Begin, Proceed
  <1>6. CASE (\E p \in Pids : ProcessNext(p)) \/ LibrarySend \/ UNCHANGED vars
    BY <1>1, <1>6 DEF ProcessNext, LibrarySend, vars
  <1>7. CASE Crash
    <2>1. IdleRequest.pc = "idle" /\ IdleCall.pc = "idle"
      BY DEF IdleRequest, IdleCall
    <2> QED BY <1>7, <2>1 DEF Crash, Delegated, Callers
  <1> QED BY <1>3, <1>4, <1>5, <1>6, <1>7 DEF Next

------------------------------------------------------------------------------
\* Agreement, one kind of step at a time.

\* Nobody touches what it is about.
LEMMA OthersKeepAgreement ==
  ASSUME Agreement, UNCHANGED <<apps, running, sup>>, call'[Super] = call[Super]
  PROVE  Agreement'
  BY DEF Agreement, HandlesAgree, RunningInHand, StartAgrees, RunningAs, InHand, Restoring, Stored

\* No row is written and no handle moved: nothing falls out of the supervisor's
\* hands.
LEMMA HandsKeepAgreement ==
  ASSUME Agreement, UNCHANGED <<apps, running>>, call'[Super].pc # "done",
         call'[Super].pc = "mark" => ~IsRunning(call'[Super].row),
         \A n \in Stored : IsRunning(apps[n]) /\ InHand(n) => InHand(n)'
  PROVE  Agreement'
  <1>1. HandlesAgree'
    BY DEF Agreement, HandlesAgree, RunningAs
  <1>2. RunningInHand'
    BY DEF Agreement, RunningInHand, Stored
  <1> QED BY <1>1, <1>2 DEF Agreement, StartAgrees

\* A row that does not say Running is written of an app without a process.
LEMMA SaveKeepsAgreement ==
  ASSUME Inv, Agreement, NEW row \in App, row.name = sup.app, Save(row), ~IsRunning(row),
         running[sup.app] = None, UNCHANGED running, call'[Super].pc \notin {"mark", "done"},
         \A n \in Stored : n # sup.app /\ InHand(n) => InHand(n)'
  PROVE  Agreement'
  <1>0. StoreTypeOK /\ sup.app \in Names
    BY DEF Inv, TypeOK, App
  <1>1. apps'[sup.app] = row /\ \A n \in Names \ {sup.app} : apps'[n] = apps[n]
    BY <1>0 DEF Save, StoreTypeOK
  <1>2. HandlesAgree'
    BY <1>1 DEF Agreement, HandlesAgree, RunningAs
  <1>3. RunningInHand'
    <2> SUFFICES ASSUME NEW n \in Names, apps'[n] # None, IsRunning(apps'[n])
                 PROVE  running[n] # None \/ InHand(n)'
      BY DEF RunningInHand, Stored
    <2>1. n # sup.app /\ apps'[n] = apps[n]
      BY <1>1
    <2> QED BY <2>1 DEF Agreement, RunningInHand, Stored
  <1> QED BY <1>2, <1>3 DEF Agreement, StartAgrees

\* An app that is created is not running, and nobody of its name was.
LEMMA CreationKeepsAgreement ==
  ASSUME Inv, IdInv, HandleInv, Delegated, Agreement, NEW r \in Requests, CreateSave(r)
  PROVE  Agreement'
  <1>0. StoreTypeOK /\ TaskReady /\ RequestsReady /\ UNCHANGED <<running, sup, call>>
    BY DEF Inv, TypeOK, CreateSave, SaveRow, supVars
  <1>1. CASE UNCHANGED apps
    BY <1>0, <1>1, OthersKeepAgreement
  <1>2. CASE Save(req[r].row)
    <2>1. PICK row \in App : row = req[r].row
      BY <1>0 DEF CreateSave, SaveRow, ReqAt, RequestsReady
    <2>2. ~HasId(row.id) /\ ~IsRunning(row) /\ row.name \in Names
      BY <2>1, NewRowsAtHome DEF CreateSave, SaveRow, ReqAt, Delegated, App
    <2>3. apps[row.name] = None
      BY <1>2, <2>1, <2>2 DEF Save, Saveable, HasId, Stored
    <2>4. apps'[row.name] = row /\ \A n \in Names \ {row.name} : apps'[n] = apps[n]
      BY <1>0, <1>2, <2>1, <2>2 DEF Save, StoreTypeOK
    <2>5. ASSUME NEW n \in Names, NEW p, RunningAs(n, p) PROVE RunningAs(n, p)'
      <3>1. n # row.name
        BY <2>3, <2>5 DEF RunningAs
      <3> QED BY <2>4, <2>5, <3>1 DEF RunningAs
    <2>6. HandlesAgree'
      <3> SUFFICES ASSUME NEW n \in Names, running[n] # None
                   PROVE  \E p : p = running[n] /\ RunningAs(n, p)'
        BY <1>0 DEF HandlesAgree
      <3>1. PICK p : p = running[n]
        OBVIOUS
      <3>2. RunningAs(n, p)
        BY <3>1 DEF Agreement, HandlesAgree
      <3> QED BY <2>5, <3>1, <3>2
    <2>7. RunningInHand'
      <3> SUFFICES ASSUME NEW n \in Names, apps'[n] # None, IsRunning(apps'[n])
                   PROVE  running[n] # None \/ InHand(n)
        BY <1>0 DEF RunningInHand, Stored, InHand, Restoring
      <3>1. apps'[n] = apps[n]
        BY <2>2, <2>4
      <3> QED BY <3>1 DEF Agreement, RunningInHand, Stored
    <2>8. StartAgrees'
      <3>1. PICK p : p = call[Super].child
        OBVIOUS
      <3>2. call[Super].pc = "done" => sup.app \in Names /\ RunningAs(sup.app, p)
        BY <1>0, <3>1 DEF Agreement, StartAgrees, HandleInv, Owned, TaskReady
      <3>3. call[Super].pc = "done" => RunningAs(sup.app, p)'
        BY <1>0, <2>5, <3>2
      <3> QED BY <1>0, <3>1, <3>3 DEF Agreement, StartAgrees
    <2> QED BY <2>6, <2>7, <2>8 DEF Agreement
  <1> QED BY <1>1, <1>2 DEF CreateSave, SaveRow, storeVars

\* start::execute marks the row before it spawns, and names the process after.
LEMMA StartKeepsAgreement ==
  ASSUME Inv, HandleInv, Agreement, StartStep(Super), UNCHANGED supVars
  PROVE  Agreement'
  <1>0. /\ StoreTypeOK /\ StartTypeOK /\ CallsReady /\ Rooted /\ TaskReady /\ SlotFree
        /\ Super \in Callers /\ call[Super] \in Call /\ UNCHANGED <<running, sup>>
    BY DEF Inv, TypeOK, StartTypeOK, Callers, supVars
  <1>1. call[Super].pc \in {"read", "mark", "spawn", "record", "commit"}
    BY DEF StartStep, StartRead, StartMark, StartSpawn, SpawnFails, StartRecord, StartCommit,
       StartRefused
  <1>2. /\ sup.pc = "starting" /\ sup.app \in Names /\ call[Super].app = sup.app
        /\ running[sup.app] = None
    BY <1>0, <1>1 DEF HandleInv, Owned, TaskReady, SlotFree
  <1>3. call[Super].pc \in {"mark", "spawn", "record", "commit"} =>
          call[Super].row \in App /\ call[Super].row.name = sup.app
    BY <1>0, <1>2, NoneIsNoApp DEF CallsReady, HandleInv, Owned
  <1>4. \A n : InHand(n) => Restoring(n) \/ (n = sup.app /\ sup.job = "boot")
    BY <1>1, <1>2 DEF InHand
  <1>5. \A n : InHand(n) => InHand(n)'
    BY <1>0, <1>2, <1>4 DEF InHand, Restoring
  <1>6. ASSUME NEW pc, NEW row, Continue(Super, pc, row)
        PROVE  call'[Super].pc = pc /\ call'[Super].row = row
    BY <1>0, <1>6 DEF Continue, StartTypeOK, Call
  <1>7. ASSUME NEW pc, Return(Super, pc)
        PROVE  call'[Super].pc = pc /\ call'[Super].child = call[Super].child
    BY <1>0, <1>7 DEF Return, Returned, StartTypeOK, Call
  <1>8. CASE StartRead(Super)
    <2>1. UNCHANGED apps
      BY <1>8 DEF StartRead, storeVars
    <2>2. CASE Return(Super, "failed")
      BY <1>0, <1>5, <1>7, <2>1, <2>2, HandsKeepAgreement
    <2>3. CASE apps[sup.app] # None /\ Continue(Super, "mark", Started(apps[sup.app]))
      <3>1. ~IsRunning(Started(apps[sup.app]))
        BY <1>0, <1>2, <2>3 DEF Started, InState, IsRunning, StoreTypeOK, App
      <3> QED BY <1>0, <1>5, <1>6, <2>1, <2>3, <3>1, HandsKeepAgreement
    <2> QED BY <1>2, <1>8, <2>2, <2>3 DEF StartRead
  <1>9. CASE StartMark(Super)
    <2>1. PICK row \in App : row = call[Super].row
      BY <1>3, <1>9 DEF StartMark
    <2>2. row.name = sup.app /\ ~IsRunning(row) /\ Save(row)
      BY <1>3, <1>9, <2>1 DEF StartMark, Agreement, StartAgrees
    <2>3. call'[Super].pc = "spawn"
      BY <1>6, <1>9 DEF StartMark
    <2> QED BY <1>0, <1>2, <1>5, <2>2, <2>3, SaveKeepsAgreement DEF Stored
  <1>10. CASE StartSpawn(Super)
    <2>1. UNCHANGED apps /\ call'[Super].pc = "record"
      BY <1>0, <1>10 DEF StartSpawn, storeVars, StartTypeOK, Call
    <2> QED BY <1>0, <1>5, <2>1, HandsKeepAgreement
  <1>11. CASE SpawnFails(Super) \/ StartRefused(Super)
    <2>1. UNCHANGED apps /\ call'[Super].pc = "failed"
      BY <1>7, <1>11 DEF SpawnFails, StartRefused, storeVars
    <2> QED BY <1>0, <1>5, <2>1, HandsKeepAgreement
  <1>12. CASE StartRecord(Super)
    <2>1. UNCHANGED apps /\ call'[Super].pc = "commit"
      BY <1>6, <1>12 DEF StartRecord, InsertRun
    <2> QED BY <1>0, <1>5, <2>1, HandsKeepAgreement
  <1>13. CASE StartCommit(Super)
    <2>1. PICK p \in Pids : p = call[Super].child
      BY <1>0, <1>13 DEF StartCommit, CallsReady
    <2>2. PICK row \in App : row = Running(call[Super].row, p)
      BY <1>3, <1>13, <2>1, RowsStayRows DEF StartCommit
    <2>3. /\ row.name = sup.app /\ IsRunning(row) /\ row.pid = p /\ row # None
          /\ Save(row) /\ call'[Super].pc = "done" /\ call'[Super].child = p
      BY <1>3, <1>7, <1>13, <2>1, <2>2, NoneIsNoApp DEF StartCommit, Running, IsRunning, App
    <2>4. apps'[sup.app] = row /\ \A n \in Names \ {sup.app} : apps'[n] = apps[n]
      BY <1>0, <1>2, <2>3 DEF Save, StoreTypeOK
    <2>5. HandlesAgree'
      BY <1>0, <1>2, <2>4 DEF Agreement, HandlesAgree, RunningAs
    <2>6. RunningInHand'
      <3> SUFFICES ASSUME NEW n \in Names, apps'[n] # None, IsRunning(apps'[n])
                   PROVE  running[n] # None \/ InHand(n)'
        BY <1>0 DEF RunningInHand, Stored
      <3>1. CASE n = sup.app
        BY <1>0, <1>2, <2>3, <3>1 DEF InHand
      <3>2. CASE n # sup.app
        BY <1>5, <2>4, <3>2 DEF Agreement, RunningInHand, Stored
      <3> QED BY <3>1, <3>2
    <2>7. StartAgrees'
      BY <1>0, <2>3, <2>4 DEF StartAgrees, RunningAs
    <2> QED BY <2>5, <2>6, <2>7 DEF Agreement
  <1> QED BY <1>8, <1>9, <1>10, <1>11, <1>12, <1>13 DEF StartStep

\* A handler that is done with its app turns to what it has still to restore.
LEMMA FinishKeepsRestoring ==
  ASSUME SlotFree, Finish, sup.pc # "restore", NEW n, Restoring(n)
  PROVE  Restoring(n)'
  BY DEF Finish, Returns, IdleTask, Restoring

\* Once all is restored, nothing is in hand where a handler begins.
LEMMA NothingInHand ==
  ASSUME SlotFree, NEW n, InHand(n)
  PROVE  sup.pc \in {"restore", "next", "starting", "restoreFail", "stopMark", "exitClose",
                     "exitSave"}
  BY DEF SlotFree, InHand, Restoring

\* The task writes the state of an app when it has taken the handle out of the
\* map, and no save of its is refused, because the app is still there.
LEMMA SupervisorSavesAgree ==
  ASSUME AgreeInv, RestoreFail \/ StopSave \/ ExitSave \/ StopMark, NEW row \in App,
         row = CASE sup.pc = "restoreFail" -> InState(sup.row, "Failed")
                 [] sup.pc = "stopSave"    -> Stopped(sup.row, sup.code)
                 [] sup.pc = "forget"      -> Forgotten(sup.row)
                 [] sup.pc = "exitSave"    -> AfterExit(sup.row)
                 [] sup.pc = "stopMark"    -> InState(sup.row, "Stopping"),
         Save(row)
  PROVE  Agreement'
  <1>0. /\ Inv /\ Agreement /\ TaskReady /\ SlotFree /\ OwnRow /\ StopFree /\ sup \in Task
        /\ Super \in Callers /\ StartTypeOK
    BY DEF AgreeInv, Inv, TaskInv, TypeOK, SupervisorTypeOK, Callers
  <1>1. /\ sup.pc \in {"restoreFail", "stopSave", "forget", "exitSave", "stopMark"}
        /\ sup.row \in App /\ sup.app \in Names /\ sup.row.name = sup.app
        /\ running[sup.app] = None /\ UNCHANGED running
    BY <1>0, NoneIsNoApp DEF RestoreFail, StopSave, ExitSave, StopMark, At, TaskReady, SlotFree,
       OwnRow, StopFree
  <1>2. row.name = sup.app /\ ~IsRunning(row)
    BY <1>1 DEF InState, Stopped, Forgotten, AfterExit, Retried, IsRunning, App
  <1>3. call'[Super].pc \notin {"mark", "done"}
    <2>1. UNCHANGED call \/ CallStart(sup.app)
      BY DEF RestoreFail, StopSave, ExitSave, StopMark
    <2>2. call[Super].pc = "idle"
      BY <1>1 DEF AgreeInv, HandleInv, Owned
    <2> QED BY <1>0, <2>1, <2>2 DEF CallStart, StartCall, IdleCall, StartTypeOK
  <1>4. ASSUME NEW n \in Stored, n # sup.app, InHand(n) PROVE InHand(n)'
    <2>1. Restoring(n) /\ sup.job = "boot"
      BY <1>1, <1>4 DEF InHand, Restoring
    <2>2. sup.pc = "restoreFail"
      BY <1>0, <1>1, <2>1 DEF SlotFree
    <2>3. Finish
      BY <2>2 DEF RestoreFail, StopSave, ExitSave, StopMark, At
    <2> QED BY <1>0, <2>1, <2>2, <2>3, FinishKeepsRestoring DEF InHand
  <1> QED BY <1>0, <1>1, <1>2, <1>3, <1>4, SaveKeepsAgreement

LEMMA SupervisorKeepsAgreement ==
  ASSUME Delegating, AgreeInv, SupervisorNext
  PROVE  Agreement'
  <1>0. /\ Inv /\ Agreement /\ TaskReady /\ SlotFree /\ Rooted /\ Owned /\ sup \in Task
        /\ StoreTypeOK /\ SupervisorTypeOK /\ StartTypeOK /\ Super \in Callers
    BY DEF AgreeInv, Inv, TypeOK, SupervisorTypeOK, Callers, HandleInv
  <1>1. ~StatementFails
    BY DEF Delegating, StatementFails
  <1>2. \A n : CallStart(n) => call'[Super].pc = "read"
    BY <1>0 DEF CallStart, StartCall, IdleCall, StartTypeOK
  <1>3. sup.pc # "starting" => call[Super].pc = "idle"
    BY <1>0 DEF Owned
  <1>4. ASSUME RestoreFail \/ StopMark \/ StopSave \/ ExitSave PROVE Agreement'
    <2>1. PICK row \in App :
            row = CASE sup.pc = "restoreFail" -> InState(sup.row, "Failed")
                    [] sup.pc = "stopSave"    -> Stopped(sup.row, sup.code)
                    [] sup.pc = "forget"      -> Forgotten(sup.row)
                    [] sup.pc = "exitSave"    -> AfterExit(sup.row)
                    [] sup.pc = "stopMark"    -> InState(sup.row, "Stopping")
      <3>1. /\ sup.pc \in {"restoreFail", "stopSave", "forget", "exitSave", "stopMark"}
            /\ sup.row \in App /\ sup.code \in ExitCode \cup {None}
        BY <1>0, <1>4 DEF RestoreFail, StopSave, ExitSave, StopMark, At, TaskReady, Task
      <3> QED BY <3>1, RowsStayRows DEF AppState
    <2>2. sup.row \in App /\ Kept(sup.row)
      BY <1>0, <1>4, NoneIsNoApp DEF RestoreFail, StopSave, ExitSave, StopMark, At, TaskReady,
         AgreeInv, CopiesKept, RowsIn, KeptRows
    <2>3. row.name = sup.row.name /\ row.id = sup.row.id
      BY <1>4, <2>1, <2>2 DEF RestoreFail, StopSave, ExitSave, StopMark, At, InState, Stopped,
         Forgotten, AfterExit, Retried, App
    <2>4. Saveable(row)
      BY <2>2, <2>3 DEF Kept, Saveable
    <2>5. Save(row)
      BY <1>4, <2>1, <2>4 DEF RestoreFail, StopSave, ExitSave, StopMark, At
    <2> QED BY <1>4, <2>1, <2>5, SupervisorSavesAgree
  <1>5. CASE StartDone
    <2>1. /\ sup.pc = "starting" /\ sup.app \in Names /\ call[Super].pc = "done"
          /\ running' = [running EXCEPT ![sup.app] = call[Super].child]
          /\ UNCHANGED apps /\ call'[Super].pc = "idle" /\ Finish
      BY <1>0, <1>5 DEF StartDone, At, TaskReady, storeVars, StartTypeOK, IdleCall
    <2>2. RunningAs(sup.app, call[Super].child) /\ call[Super].child # None
      BY <1>0, <2>1, AppModelAssumption DEF Agreement, StartAgrees, Inv, CallsReady, Pids
    <2>3. HandlesAgree'
      BY <1>0, <2>1, <2>2 DEF Agreement, HandlesAgree, RunningAs, SupervisorTypeOK
    <2>4. RunningInHand'
      <3> SUFFICES ASSUME NEW n \in Stored, IsRunning(apps[n]), n # sup.app, running[n] = None
                   PROVE  InHand(n)'
        BY <1>0, <2>1, <2>2 DEF RunningInHand, Stored, SupervisorTypeOK
      <3>1. Restoring(n)
        BY <1>0 DEF Agreement, RunningInHand, InHand
      <3> QED BY <1>0, <2>1, <3>1, FinishKeepsRestoring DEF InHand
    <2> QED BY <2>1, <2>3, <2>4 DEF Agreement, StartAgrees
  <1>6. CASE StopRead \/ ExitRead
    <2>1. sup.pc \in {"stop", "exit"} /\ sup.app \in Names /\ UNCHANGED <<apps, call>>
      BY <1>0, <1>6 DEF StopRead, ExitRead, At, TaskReady, storeVars
    <2>2. \A n : ~InHand(n)
      BY <1>0, <2>1, NothingInHand
    <2>3. call'[Super].pc = "idle"
      BY <1>3, <2>1
    <2>4. CASE Row = None
      <3>1. UNCHANGED running
        BY <1>6, <2>4 DEF StopRead, ExitRead
      <3> QED BY <1>0, <2>1, <2>2, <2>3, <3>1, HandsKeepAgreement
    <2>5. CASE Row # None
      <3>1. /\ running' = [running EXCEPT ![sup.app] = None] /\ sup'.app = sup.app
            /\ sup'.pc \in {"stopMark", "exitClose"} \/ running[sup.app] = None
        BY <1>0, <1>6, <2>5 DEF StopRead, ExitRead, TakeChild, Task
      <3>2. HandlesAgree'
        BY <1>0, <2>1, <3>1 DEF Agreement, HandlesAgree, RunningAs, SupervisorTypeOK
      <3>3. RunningInHand'
        <4> SUFFICES ASSUME NEW n \in Stored, IsRunning(apps[n])
                     PROVE  running'[n] # None \/ InHand(n)'
          BY <2>1 DEF RunningInHand, Stored
        <4>1. running[n] # None
          BY <1>0, <2>2 DEF Agreement, RunningInHand
        <4> QED BY <1>0, <3>1, <4>1 DEF InHand, SupervisorTypeOK, Stored
      <3> QED BY <2>3, <3>2, <3>3 DEF Agreement, StartAgrees
    <2> QED BY <2>4, <2>5
  <1>7. CASE Restore
    <2>1. /\ sup.pc = "restore" /\ UNCHANGED <<apps, running, call>> /\ sup'.job = sup.job
          /\ sup'.todo = GetByState("Running")
      BY <1>0, <1>7 DEF Restore, At, Task, storeVars
    <2>2. ASSUME NEW n \in Stored, IsRunning(apps[n]), InHand(n) PROVE InHand(n)'
      <3>1. sup.job = "boot"
        BY <2>1, <2>2 DEF InHand, Restoring
      <3>2. apps[n] \in GetByState("Running") /\ apps[n].name = n
        BY <1>0, <2>2 DEF GetByState, Stored, IsRunning, Rooted
      <3> QED BY <2>1, <3>1, <3>2 DEF InHand, Restoring
    <2> QED BY <1>0, <1>3, <2>1, <2>2, HandsKeepAgreement
  <1>8. CASE NextApp
    <2>1. PICK row \in sup.todo :
            IF sup.job = "boot"
              THEN /\ sup' = [sup EXCEPT !.pc = "starting", !.app = row.name, !.row = row,
                                         !.todo = @ \ {row}]
                   /\ CallStart(row.name)
              ELSE UNCHANGED call
      BY <1>8 DEF NextApp
    <2>2. sup.pc = "next" /\ UNCHANGED <<apps, running>> /\ call'[Super].pc \in {"idle", "read"}
      BY <1>2, <1>3, <1>8, <2>1 DEF NextApp, At, storeVars
    <2>3. ASSUME NEW n \in Stored, InHand(n) PROVE InHand(n)'
      <3>1. sup.job = "boot" /\ \E other \in sup.todo : other.name = n
        BY <2>2, <2>3 DEF InHand, Restoring
      <3>2. /\ sup'.pc = "starting" /\ sup'.app = row.name /\ sup'.job = "boot"
            /\ sup'.todo = sup.todo \ {row}
        BY <1>0, <2>1, <3>1 DEF Task
      <3> QED BY <3>1, <3>2 DEF InHand, Restoring
    <2> QED BY <1>0, <2>2, <2>3, HandsKeepAgreement
  <1>9. CASE StartFailed
    <2>1. /\ sup.pc = "starting" /\ call[Super].pc = "failed" /\ call'[Super].pc = "idle"
          /\ UNCHANGED <<apps, running>>
      BY <1>0, <1>9 DEF StartFailed, At, storeVars, StartTypeOK, IdleCall
    <2>2. ASSUME NEW n \in Stored, InHand(n) PROVE InHand(n)'
      <3>1. sup.job = "boot" /\ (n = sup.app \/ Restoring(n))
        BY <2>1, <2>2 DEF InHand, Restoring
      <3>2. Goto("restoreFail")
        BY <1>9, <3>1 DEF StartFailed
      <3>3. /\ sup'.pc = "restoreFail" /\ sup'.app = sup.app /\ sup'.job = sup.job
            /\ sup'.todo = sup.todo
        BY <1>0, <3>2 DEF Goto, Task
      <3> QED BY <2>1, <3>1, <3>3 DEF InHand, Restoring
    <2> QED BY <1>0, <2>1, <2>2, HandsKeepAgreement
  <1>10. CASE ExitClose
    <2>1. /\ sup.pc = "exitClose" /\ sup'.pc = "exitSave" /\ sup'.app = sup.app
          /\ UNCHANGED <<apps, running, call>>
      BY <1>0, <1>10 DEF ExitClose, At, Goto, Task, CloseLatestRun
    <2>2. ASSUME NEW n \in Stored, InHand(n) PROVE InHand(n)'
      <3>1. sup.job # "boot"
        BY <1>0, <2>1 DEF SlotFree
      <3> QED BY <2>1, <2>2, <3>1 DEF InHand, Restoring
    <2> QED BY <1>0, <1>3, <2>1, <2>2, HandsKeepAgreement
  <1>11. CASE LoopEnds
    <2>1. /\ sup.pc = "next" /\ sup.todo = {} /\ UNCHANGED <<apps, running, call>>
      BY <1>11 DEF LoopEnds, At, storeVars
    <2>2. \A n : ~InHand(n)
      BY <2>1 DEF InHand, Restoring
    <2> QED BY <1>0, <1>3, <2>1, <2>2, HandsKeepAgreement
  <1>12. CASE \/ Receive \/ Tick \/ StartCheck \/ Kill \/ CloseRun \/ RestartRead \/ HealthRead
              \/ ProbePasses \/ ProbeFails
    <2>1. /\ sup.pc \in {"idle", "startCheck", "kill", "closeRun", "restart", "health", "probe"}
          /\ UNCHANGED <<apps, running>>
          /\ UNCHANGED call \/ CallStart(sup.app)
      BY <1>12 DEF Receive, Tick, StartCheck, Kill, CloseRun, RestartRead, HealthRead, ProbePasses,
         ProbeFails, At, storeVars, CloseLatestRun
    <2>2. \A n : ~InHand(n)
      BY <1>0, <2>1, NothingInHand
    <2>3. call'[Super].pc \in {"idle", "read"}
      BY <1>2, <1>3, <2>1
    <2> QED BY <1>0, <2>1, <2>2, <2>3, HandsKeepAgreement
  <1> QED BY <1>1, <1>4, <1>5, <1>6, <1>7, <1>8, <1>9, <1>10, <1>11, <1>12
          DEF SupervisorNext, Work

LEMMA NextKeepsAgree ==
  ASSUME Delegating, AgreeInv, [Next]_vars
  PROVE  AgreeInv'
  <1>0. /\ Inv /\ IdInv /\ HandleInv /\ TaskInv /\ CopiesKept /\ Delegated /\ Agreement
        /\ StartTypeOK
    BY DEF AgreeInv, Inv, TypeOK
  <1>1. NoDeletes
    BY <1>0 DEF NoDeletes, Delegated
  <1>2. Inv' /\ IdInv' /\ HandleInv' /\ TaskInv' /\ CopiesKept' /\ Delegated'
    BY <1>0, <1>1, NextKeepsInv, NextKeepsIds, NextKeepsHandles, NextKeepsTask, NextKeepsCopies,
       NextKeepsDelegated
  <1> SUFFICES Agreement'
    BY <1>2 DEF AgreeInv
  <1>3. CASE SupervisorNext
    BY <1>3, SupervisorKeepsAgreement
  <1>4. CASE \E c \in Callers : CallNext(c)
    <2>1. PICK c \in Callers : StartStep(c) /\ UNCHANGED supVars
      BY <1>4 DEF CallNext
    <2>2. call[c].pc # "idle"
      BY <2>1 DEF StartStep, StartRead, StartMark, StartSpawn, SpawnFails, StartRecord,
         StartCommit, StartRefused
    <2>3. c = Super
      BY <1>0, <2>2 DEF Delegated, Callers
    <2> QED BY <1>0, <2>1, <2>3, StartKeepsAgreement
  <1>5. CASE \E r \in Requests : RequestNext(r)
    <2>1. PICK r \in Requests : RequestNext(r)
      BY <1>5
    <2>2. CASE CreateSave(r)
      BY <1>0, <2>2, CreationKeepsAgreement
    <2>3. CASE ~CreateSave(r)
      <3>1. UNCHANGED <<running, sup>>
        BY <1>0, <2>1, RequestsKeepSupervisor DEF Inv, TypeOK, RequestNext
      <3>2. /\ ~DeleteRow(r) /\ ~DeploySave(r) /\ ~EnvSave(r)
        BY <1>0 DEF Delegated, DeleteRow, DeploySave, EnvSave, SaveRow, ReqAt
      <3>3. UNCHANGED apps
        BY <2>1, <2>3, <3>2 DEF RequestNext, Begin, Proceed, CreateCheck, DeleteCheck, DeployCheck,
           EnvRead, StopCheck, RestartCheck, ApiStart, CreateSetup, DeleteFiles, DeleteHistory,
           DeleteRuns, DeployWrite, DeployBusy, Send, Abandon, storeVars
      <3> QED BY <1>0, <2>1, <3>1, <3>3, RequestsKeepSuper, OthersKeepAgreement
    <2> QED BY <2>2, <2>3
  <1>6. CASE (\E p \in Pids : ProcessNext(p)) \/ LibrarySend \/ UNCHANGED vars
    <2>1. UNCHANGED <<apps, call, running, sup>>
      BY <1>6 DEF ProcessNext, LibrarySend, vars, supVars, storeVars
    <2> QED BY <1>0, <2>1, OthersKeepAgreement
  <1>7. CASE Crash
    <2>1. /\ \A n \in Names : running'[n] = None
          /\ sup'.job = "boot" /\ sup'.pc = "restore"
          /\ call'[Super].pc = "idle"
      BY <1>7 DEF Crash, BootTask, IdleTask, IdleCall, Callers
    <2> QED BY <2>1 DEF Agreement, HandlesAgree, RunningInHand, StartAgrees, InHand, Restoring
  <1> QED BY <1>3, <1>4, <1>5, <1>6, <1>7 DEF Next

LEMMA InitAgree ==
  ASSUME Init
  PROVE  AgreeInv
  <1>1. CloseInv /\ TrackInv
    BY InitClose, InitTrack
  <1>2. Delegated
    BY DEF Init, Delegated, Callers, IdleCall, IdleRequest
  <1>3. Agreement
    <2>1. /\ \A n \in Names : running[n] = None
          /\ sup.job = "boot" /\ sup.pc = "restore"
          /\ call[Super].pc = "idle"
      BY DEF Init, BootTask, IdleTask, IdleCall, Callers
    <2> QED BY <2>1 DEF Agreement, HandlesAgree, RunningInHand, StartAgrees, InHand, Restoring
  <1> QED BY <1>1, <1>2, <1>3 DEF AgreeInv, CloseInv, TrackInv

LEMMA AgreeInvariance == Delegating => (Spec => []AgreeInv)
  <1> SUFFICES ASSUME Delegating PROVE Spec => []AgreeInv
    OBVIOUS
  <1> QED BY InitAgree, NextKeepsAgree, PTL DEF Spec

\* Between two messages the database is right about which apps run, and as which
\* process, on the terms of Delegating; processes may exit, be notified of or be
\* orphaned, and the server end, at any moment.
THEOREM RowsAgree == Delegating => (Spec => []RowAgreesWhenQuiet)
  <1>1. AgreeInv => RowAgreesWhenQuiet
    <2> SUFFICES ASSUME AgreeInv, Quiet, NEW n \in Stored
                 PROVE  /\ IsRunning(apps[n]) <=> running[n] # None
                        /\ IsRunning(apps[n]) => apps[n].pid = running[n]
      BY DEF RowAgreesWhenQuiet
    <2>1. ~InHand(n)
      BY NothingInHand DEF AgreeInv, Inv, Quiet
    <2> QED BY <2>1 DEF AgreeInv, Agreement, HandlesAgree, RunningInHand, RunningAs, Stored
  <1> SUFFICES ASSUME Delegating PROVE Spec => []RowAgreesWhenQuiet
    OBVIOUS
  <1> QED BY <1>1, AgreeInvariance, PTL

------------------------------------------------------------------------------
\* A restart is not refused.

\* Only handle_restart says that a handler runs for it, and the next message finds
\* that unsaid.
Unrestarted == sup.pc \in {"restore", "next", "idle"} => ~sup.restart

LEMMA NextKeepsRestart ==
  ASSUME AgreeInv, Unrestarted, RestartNeverRefused, [Next]_vars
  PROVE  Unrestarted' /\ RestartNeverRefused'
  <1>0. /\ TaskReady /\ StopFree /\ HandlesAgree /\ sup \in Task /\ SupervisorTypeOK
        /\ queue \in Seq(Message) /\ RequestsReady
    BY DEF AgreeInv, Inv, TypeOK, SupervisorTypeOK, TaskInv, Agreement
  <1>1. ASSUME UNCHANGED <<running, sup>> PROVE Unrestarted' /\ RestartNeverRefused'
    BY <1>1 DEF Unrestarted, RestartNeverRefused
  <1>2. ASSUME Finish \/ sup' = IdleTask PROVE Unrestarted' /\ RestartNeverRefused'
    <2>1. CASE sup' = IdleTask
      BY <2>1 DEF IdleTask, Unrestarted, RestartNeverRefused
    <2>2. CASE Finish /\ sup' # IdleTask
      <3>1. sup' = [IdleTask EXCEPT !.pc = "next", !.job = sup.job, !.todo = sup.todo]
        BY <2>2 DEF Finish, Returns
      <3>2. ~sup'.restart
        BY <3>1 DEF IdleTask
      <3> QED BY <3>2 DEF Unrestarted, RestartNeverRefused
    <2> QED BY <1>2, <2>1, <2>2
  <1>3. ASSUME sup'.pc \notin {"restore", "next", "idle", "startCheck"}
        PROVE  Unrestarted' /\ RestartNeverRefused'
    BY <1>3 DEF Unrestarted, RestartNeverRefused
  <1>4. ASSUME ~sup'.restart PROVE Unrestarted' /\ RestartNeverRefused'
    BY <1>4 DEF Unrestarted, RestartNeverRefused
  <1>5. CASE SupervisorNext
    <2>1. CASE Receive \/ Tick \/ Restore
      <3>1. sup'.restart = sup.restart /\ sup.pc \in {"idle", "restore"}
        BY <1>0, <2>1 DEF Receive, Tick, Restore, At, Task
      <3> QED BY <1>4, <3>1 DEF Unrestarted
    <2>2. CASE NextApp
      <3>1. sup'.pc \in {"starting", "health"}
        BY <1>0, <2>2 DEF NextApp, Task
      <3> QED BY <1>3, <3>1
    <2>3. CASE StopSave
      <3>1. CASE sup' = [sup EXCEPT !.pc = "startCheck", !.row = None, !.child = None, !.code = None]
        <4>1. sup'.app = sup.app /\ running'[sup.app] = None
          BY <1>0, <2>3, <3>1 DEF StopSave, StopFree, At, Task
        <4>2. sup'.pc = "startCheck"
          BY <1>0, <3>1 DEF Task
        <4> QED BY <4>1, <4>2 DEF Unrestarted, RestartNeverRefused
      <3> QED BY <1>2, <2>3, <3>1 DEF StopSave, AfterStop, Finish
    <2>4. CASE RestartRead
      <3>1. CASE Row # None
        <4>1. /\ sup'.pc = IF IsRunning(Row) THEN "stop" ELSE "startCheck"
              /\ sup'.app = sup.app /\ sup.app \in Names /\ UNCHANGED running
          BY <1>0, <2>4, <3>1 DEF RestartRead, TaskReady, At, Task
        <4>2. sup'.pc = "startCheck" => running[sup.app] = None
          BY <1>0, <4>1 DEF HandlesAgree, RunningAs, Row
        <4> QED BY <4>1, <4>2 DEF Unrestarted, RestartNeverRefused
      <3> QED BY <1>2, <2>4, <3>1 DEF RestartRead
    <2>5. CASE \/ StartCheck \/ StartDone \/ StartFailed \/ RestoreFail \/ LoopEnds
               \/ Kill \/ CloseRun
      BY <1>0, <1>2, <1>3, <2>5 DEF StartCheck, StartDone, StartFailed, RestoreFail, LoopEnds,
         Kill, CloseRun, Goto, Task
    <2>6. CASE HealthRead \/ ProbePasses \/ ProbeFails
      <3>1. CASE Unhealthy
        <4>1. Finish \/ sup'.pc = "restart"
          BY <1>0, <3>1 DEF Unhealthy, Task
        <4> QED BY <1>2, <1>3, <4>1
      <3>2. CASE HealthRead
        <4>1. Finish \/ Unhealthy \/ sup'.pc = "probe"
          BY <1>0, <3>2 DEF HealthRead, Task
        <4> QED BY <1>2, <1>3, <3>1, <4>1
      <3> QED BY <1>2, <2>6, <3>1, <3>2 DEF ProbePasses, ProbeFails
    <2>7. CASE StopRead \/ StopMark \/ ExitRead \/ ExitClose \/ ExitSave
      BY <1>0, <1>2, <1>3, <2>7 DEF StopRead, StopMark, ExitRead, ExitClose, ExitSave, Goto, Task
    <2>8. CASE StatementFails
      BY <1>0, <1>1, <1>2, <1>3, <2>8 DEF StatementFails, Unhealthy, Task
    <2> QED BY <1>5, <2>1, <2>2, <2>3, <2>4, <2>5, <2>6, <2>7, <2>8 DEF SupervisorNext, Work
  <1>6. CASE \E r \in Requests : RequestNext(r)
    BY <1>0, <1>1, <1>6, RequestsKeepSupervisor DEF RequestNext
  <1>7. CASE Crash
    BY <1>4, <1>7 DEF Crash, BootTask, IdleTask
  <1> QED BY <1>1, <1>5, <1>6, <1>7 DEF Next, CallNext, ProcessNext, LibrarySend, vars, supVars

\* A restart is never turned down by handle_start because the app runs already,
\* which handle_restart would take for done: on the terms of Delegating, whatever
\* exits, ends or is notified of.
THEOREM RestartsNotRefused == Delegating => (Spec => []RestartNeverRefused)
  <1>1. Init => Unrestarted /\ RestartNeverRefused
    BY DEF Init, BootTask, IdleTask, Unrestarted, RestartNeverRefused
  <1> SUFFICES ASSUME Delegating PROVE Spec => []RestartNeverRefused
    OBVIOUS
  <1> QED BY <1>1, NextKeepsRestart, AgreeInvariance, PTL DEF Spec

------------------------------------------------------------------------------
\* An app that is down has no process.

\* What the row of the app that the supervisor works on says by then.
Says(state) == apps[sup.app] # None /\ apps[sup.app].state = state

\* start::execute marks the row before it spawns, handle_stop before it kills.
Marked ==
  /\ call[Super].pc = "mark" => call[Super].row.state = "Starting"
  /\ call[Super].pc \in {"spawn", "record", "commit"} => Says("Starting")
  /\ sup.pc = "stopMark" => Says("Running")
  /\ sup.pc = "kill" => Says("Stopping")

LEMMA SupervisorKeepsMarked ==
  ASSUME Delegating, AgreeInv, Marked, SupervisorNext
  PROVE  Marked'
  <1>0. /\ TaskReady /\ StoreTypeOK /\ Owned /\ OwnRow /\ CopiesKept /\ HandlesAgree
        /\ sup \in Task /\ StartTypeOK /\ Super \in Callers /\ SupervisorTypeOK
    BY DEF AgreeInv, Inv, TypeOK, SupervisorTypeOK, TaskInv, HandleInv, Agreement, Callers
  <1>1. \A n : CallStart(n) => call'[Super].pc = "read"
    BY <1>0 DEF CallStart, StartCall, IdleCall, StartTypeOK
  <1>2. sup.pc # "starting" => call[Super].pc = "idle"
    BY <1>0 DEF Owned
  <1>3. ~StatementFails
    BY DEF Delegating, StatementFails
  <1>4. ASSUME call'[Super].pc \notin {"mark", "spawn", "record", "commit"},
               sup'.pc \notin {"stopMark", "kill"}
        PROVE  Marked'
    BY <1>4 DEF Marked
  <1>5. Finish => sup'.pc \in {"idle", "next"}
    BY <1>0, FinishType
  <1>6. CASE StopRead
    <2>1. UNCHANGED <<apps, call>> /\ sup.pc = "stop" /\ call[Super].pc = "idle"
      BY <1>2, <1>6 DEF StopRead, At, storeVars
    <2>2. CASE sup'.pc = "stopMark"
      <3>1. sup'.app = sup.app /\ running[sup.app] # None /\ sup.app \in Names
        BY <1>0, <1>5, <1>6, <2>2 DEF StopRead, At, TaskReady, Task
      <3>2. Says("Running")
        BY <1>0, <3>1 DEF HandlesAgree, RunningAs, IsRunning, Says
      <3> QED BY <2>1, <2>2, <3>1, <3>2 DEF Marked, Says
    <2>3. CASE sup'.pc # "stopMark"
      <3>1. sup'.pc # "kill"
        BY <1>0, <1>5, <1>6, <2>3 DEF StopRead, Task
      <3> QED BY <1>4, <2>1, <2>3, <3>1
    <2> QED BY <2>2, <2>3
  <1>7. CASE StopMark
    <2>1. /\ sup.pc = "stopMark" /\ call[Super].pc = "idle" /\ UNCHANGED call
          /\ sup.row \in App /\ sup.row.name = sup.app /\ sup.app \in Names
      BY <1>0, <1>2, <1>7, NoneIsNoApp DEF StopMark, At, TaskReady, OwnRow
    <2>2. PICK row \in App : row = InState(sup.row, "Stopping")
      BY <2>1, RowsStayRows DEF AppState
    <2>3. row.name = sup.app /\ row.state = "Stopping" /\ row # None
      BY <2>1, <2>2, NoneIsNoApp DEF InState, App
    <2>4. CASE Save(row) /\ sup' = [sup EXCEPT !.pc = "kill", !.row = row]
      <3>1. sup'.pc = "kill" /\ sup'.app = sup.app
        BY <1>0, <2>4 DEF Task
      <3>2. apps'[sup.app] = row
        BY <1>0, <2>1, <2>3, <2>4 DEF Save, StoreTypeOK
      <3> QED BY <2>1, <2>3, <3>1, <3>2 DEF Marked, Says
    <2>5. CASE Finish
      BY <1>4, <1>5, <2>1, <2>5
    <2> QED BY <1>7, <2>2, <2>4, <2>5 DEF StopMark
  <1>8. CASE \/ Restore \/ NextApp \/ LoopEnds \/ StartDone \/ StartFailed \/ RestoreFail \/ StartCheck
    <2>1. call'[Super].pc \in {"idle", "read"}
      <3>1. CASE StartDone \/ StartFailed
        BY <1>0, <3>1 DEF StartDone, StartFailed, IdleCall, StartTypeOK
      <3>2. CASE NextApp \/ StartCheck
        BY <1>1, <1>2, <3>2 DEF NextApp, StartCheck, At
      <3>3. CASE Restore \/ LoopEnds \/ RestoreFail
        BY <1>2, <3>3 DEF Restore, LoopEnds, RestoreFail, At
      <3> QED BY <1>8, <3>1, <3>2, <3>3
    <2>2. sup'.pc \in {"next", "idle", "starting", "health", "restoreFail"}
      <3>1. CASE Restore \/ NextApp
        BY <1>0, <3>1 DEF Restore, NextApp, Task
      <3>2. CASE LoopEnds
        BY <3>2 DEF LoopEnds, IdleTask
      <3>3. CASE StartDone \/ StartFailed \/ RestoreFail \/ StartCheck
        BY <1>0, <1>5, <3>3 DEF StartDone, StartFailed, RestoreFail, StartCheck, Goto, Task
      <3> QED BY <1>8, <3>1, <3>2, <3>3
    <2> QED BY <1>4, <2>1, <2>2
  <1>9. CASE Receive \/ Tick \/ Kill \/ CloseRun \/ StopSave \/ RestartRead
    <2>1. call'[Super].pc = "idle"
      BY <1>2, <1>9 DEF Receive, Tick, Kill, CloseRun, StopSave, RestartRead, At
    <2>2. sup'.pc \notin {"stopMark", "kill"}
      <3>1. CASE Receive
        <4>1. Head(queue) \in Message
          BY <1>0, <3>1 DEF Receive, SupervisorTypeOK
        <4>2. Handler(Head(queue).kind) \in {"startCheck", "stop", "restart", "health", "exit"}
          BY <4>1 DEF Message, Handler
        <4> QED BY <1>0, <3>1, <4>2 DEF Receive, Task
      <3> QED BY <1>0, <1>5, <1>9, <3>1 DEF Tick, Kill, CloseRun, StopSave, RestartRead, AfterStop,
            Finish, Goto, Task
    <2> QED BY <1>4, <2>1, <2>2
  <1>10. CASE \/ HealthRead \/ ProbePasses \/ ProbeFails \/ ExitRead \/ ExitClose \/ ExitSave
    <2>1. call'[Super].pc \in {"idle", "read"}
      BY <1>1, <1>2, <1>10 DEF HealthRead, ProbePasses, ProbeFails, ExitRead, ExitClose, ExitSave, At
    <2>2. sup'.pc \notin {"stopMark", "kill"}
      BY <1>0, <1>5, <1>10 DEF HealthRead, ProbePasses, ProbeFails, ExitRead, ExitClose, ExitSave,
         Unhealthy, Goto, Task
    <2> QED BY <1>4, <2>1, <2>2
  <1> QED BY <1>3, <1>6, <1>7, <1>8, <1>9, <1>10 DEF SupervisorNext, Work

LEMMA StartKeepsMarked ==
  ASSUME AgreeInv, Marked, StartStep(Super), UNCHANGED supVars
  PROVE  Marked'
  <1>0. /\ StoreTypeOK /\ StartTypeOK /\ CallsReady /\ TaskReady /\ Owned
        /\ Super \in Callers /\ call[Super] \in Call /\ UNCHANGED sup
    BY DEF AgreeInv, Inv, TypeOK, HandleInv, StartTypeOK, Callers, supVars
  <1>1. call[Super].pc # "idle"
    BY DEF StartStep, StartRead, StartMark, StartSpawn, SpawnFails, StartRecord, StartCommit,
       StartRefused
  <1>2. sup.pc = "starting" /\ sup.app \in Names /\ call[Super].app = sup.app
    BY <1>0, <1>1 DEF Owned, TaskReady
  <1>3. ASSUME NEW pc, NEW row, Continue(Super, pc, row)
        PROVE  call'[Super].pc = pc /\ call'[Super].row = row
    BY <1>0, <1>3 DEF Continue, StartTypeOK, Call
  <1>4. ASSUME NEW pc, Return(Super, pc) PROVE call'[Super].pc = pc
    BY <1>0, <1>4 DEF Return, Returned, StartTypeOK, Call
  <1>5. CASE StartRead(Super)
    <2>1. CASE apps[sup.app] # None /\ Continue(Super, "mark", Started(apps[sup.app]))
      <3>1. Started(apps[sup.app]).state = "Starting"
        BY <1>0, <1>2, <2>1 DEF Started, InState, StoreTypeOK, App
      <3> QED BY <1>0, <1>2, <1>3, <2>1, <3>1 DEF Marked
    <2>2. CASE Return(Super, "failed")
      BY <1>0, <1>2, <1>4, <2>2 DEF Marked
    <2> QED BY <1>2, <1>5, <2>1, <2>2 DEF StartRead
  <1>6. CASE StartMark(Super)
    <2>1. PICK row \in App : row = call[Super].row
      BY <1>0, <1>6 DEF StartMark, CallsReady
    <2>2. row.name = sup.app /\ row.state = "Starting" /\ Save(row) /\ row # None
      BY <1>0, <1>2, <1>6, <2>1, NoneIsNoApp DEF StartMark, Owned, Marked
    <2>3. apps'[sup.app] = row
      BY <1>0, <1>2, <2>2 DEF Save, StoreTypeOK
    <2>4. call'[Super].pc = "spawn"
      BY <1>3, <1>6 DEF StartMark
    <2> QED BY <1>0, <1>2, <2>2, <2>3, <2>4 DEF Marked, Says
  <1>7. CASE StartSpawn(Super) \/ StartRecord(Super)
    <2>1. UNCHANGED apps /\ call'[Super].pc \in {"record", "commit"}
      BY <1>0, <1>3, <1>7 DEF StartSpawn, StartRecord, InsertRun, storeVars, StartTypeOK, Call
    <2>2. Says("Starting")
      BY <1>7 DEF StartSpawn, StartRecord, Marked
    <2> QED BY <1>0, <1>2, <2>1, <2>2 DEF Marked, Says
  <1>8. CASE SpawnFails(Super) \/ StartCommit(Super) \/ StartRefused(Super)
    <2>1. call'[Super].pc \in {"failed", "done"}
      BY <1>4, <1>8 DEF SpawnFails, StartCommit, StartRefused
    <2> QED BY <1>0, <1>2, <2>1 DEF Marked
  <1> QED BY <1>5, <1>6, <1>7, <1>8 DEF StartStep

\* Requests put rows under names that have none.
LEMMA RequestsAddRows ==
  ASSUME AgreeInv, NEW r \in Requests, RequestNext(r)
  PROVE  \A n \in Stored : apps'[n] = apps[n]
  <1>0. Inv /\ IdInv /\ StoreTypeOK /\ RequestsReady /\ Delegated
    BY DEF AgreeInv, Inv, TypeOK
  <1>1. CASE CreateSave(r)
    <2>1. PICK row \in App : row = req[r].row
      BY <1>0, <1>1 DEF CreateSave, SaveRow, ReqAt, RequestsReady
    <2>2. ~HasId(row.id) /\ row.name \in Names
      BY <1>0, <1>1, <2>1, NewRowsAtHome DEF CreateSave, SaveRow, ReqAt, App
    <2>3. Save(row) => apps[row.name] = None
      BY <2>2 DEF Save, Saveable, HasId, Stored
    <2> QED BY <1>0, <1>1, <2>1, <2>2, <2>3 DEF CreateSave, SaveRow, Save, StoreTypeOK, Stored, storeVars
  <1>2. CASE ~CreateSave(r)
    <2>1. ~DeleteRow(r) /\ ~DeploySave(r) /\ ~EnvSave(r)
      BY <1>0 DEF Delegated, DeleteRow, DeploySave, EnvSave, SaveRow, ReqAt
    <2> QED BY <1>2, <2>1 DEF RequestNext, Begin, Proceed, CreateCheck, DeleteCheck, DeployCheck,
          EnvRead, StopCheck, RestartCheck, ApiStart, CreateSetup, DeleteFiles, DeleteHistory,
          DeleteRuns, DeployWrite, DeployBusy, Send, Abandon, storeVars
  <1> QED BY <1>1, <1>2

LEMMA NextKeepsMarked ==
  ASSUME Delegating, AgreeInv, Marked, [Next]_vars
  PROVE  Marked'
  <1>0. /\ StartTypeOK /\ SupervisorTypeOK /\ RequestsReady /\ TaskReady /\ Owned /\ Delegated
    BY DEF AgreeInv, Inv, TypeOK, HandleInv
  <1>1. ASSUME UNCHANGED sup, call'[Super] = call[Super], \A n \in Stored : apps'[n] = apps[n]
        PROVE  Marked'
    <2>1. \A state : (Says(state) /\ sup.app \in Names) => Says(state)'
      BY <1>1 DEF Says, Stored
    <2>2. call[Super].pc # "idle" \/ sup.pc \in {"stopMark", "kill"} => sup.app \in Names
      BY <1>0 DEF Owned, TaskReady
    <2> QED BY <1>1, <2>1, <2>2 DEF Marked
  <1>2. CASE \E c \in Callers : CallNext(c)
    <2>1. PICK c \in Callers : StartStep(c) /\ UNCHANGED supVars
      BY <1>2 DEF CallNext
    <2>2. call[c].pc # "idle"
      BY <2>1 DEF StartStep, StartRead, StartMark, StartSpawn, SpawnFails, StartRecord,
         StartCommit, StartRefused
    <2>3. c = Super
      BY <1>0, <2>2 DEF Delegated, Callers
    <2> QED BY <2>1, <2>3, StartKeepsMarked
  <1>3. CASE \E r \in Requests : RequestNext(r)
    BY <1>0, <1>1, <1>3, RequestsAddRows, RequestsKeepSuper, RequestsKeepSupervisor DEF RequestNext
  <1>4. CASE (\E p \in Pids : ProcessNext(p)) \/ LibrarySend \/ UNCHANGED vars
    BY <1>1, <1>4 DEF ProcessNext, LibrarySend, vars, supVars, storeVars
  <1>5. CASE Crash
    <2>1. sup'.pc = "restore" /\ call'[Super].pc = "idle"
      BY <1>5 DEF Crash, BootTask, IdleTask, IdleCall, Callers
    <2> QED BY <2>1 DEF Marked
  <1> QED BY <1>2, <1>3, <1>4, <1>5, SupervisorKeepsMarked DEF Next

\* Where clients leave processes and rows to the supervisor, a state that says
\* down is right at every moment, not only between two messages: what looks at the
\* column alone, as delete::execute does, may rely on it.
THEOREM DownIsDown == Orderly /\ Delegating => (Spec => []DownMeansDown)
  <1>1. OrderInv /\ AgreeInv /\ Marked => DownMeansDown
    <2> SUFFICES ASSUME OrderInv, AgreeInv, Marked, NEW n \in Stored, NEW p \in LiveOf(n)
                 PROVE  apps[n].state \in {"Starting", "Running", "Stopping"}
      BY DEF DownMeansDown
    <2>0. /\ NoStray /\ Owned /\ Steady /\ HandlesAgree /\ StartAgrees /\ n \in Names
          /\ p \in Pids /\ Live(p) /\ proc[p].app = n /\ p # None
      BY AppModelAssumption DEF OrderInv, AgreeInv, HandleInv, Agreement, LiveOf, Stored, Pids
    <2>1. CASE running[n] = p
      BY <2>0, <2>1 DEF HandlesAgree, RunningAs, IsRunning
    <2>2. CASE sup.child = p
      BY <2>0, <2>2 DEF Owned, Steady, Marked, Says
    <2>3. CASE call[Super].child = p
      <3>1. sup.app = n
        BY <2>0, <2>3 DEF Owned, Unreaped
      <3> QED BY <2>0, <2>3, <3>1 DEF Steady, Marked, Says, StartAgrees, RunningAs, IsRunning
    <2> QED BY <2>0, <2>1, <2>2, <2>3 DEF NoStray
  <1>2. Init => Marked
    BY DEF Init, Marked, BootTask, IdleTask, IdleCall, Callers
  <1> SUFFICES ASSUME Orderly, Delegating PROVE Spec => []DownMeansDown
    OBVIOUS
  <1> QED BY <1>1, <1>2, NextKeepsMarked, OrderInvariance, AgreeInvariance, PTL DEF Spec

------------------------------------------------------------------------------
\* Counts of restarts.

\* Requests neither change the rows of apps that are there nor start apps, so the
\* supervisor alone writes rows back.  They may create and delete apps, have them
\* stopped and restarted; anything may fail.
SoleWriter == ClientOps \cap {"deploy", "env", "start"} = {}

NoEdits == \A r \in Requests : req[r].pc \notin {"write", "deployed", "envSave"}

\* Where the task may still write back the row it holds. In start_process, after an
\* exit, it holds one with the count before the restart, and drops it.
WritesBack ==
  \/ sup.pc \in {"restoreFail", "stopMark", "kill", "closeRun", "stopSave", "forget",
                 "exitClose", "exitSave"}
  \/ sup.job = "boot" /\ sup.pc = "starting"

\* The rows that are stored, or that may be written back.
InUse(row) ==
  \/ \E n \in Stored : row = apps[n]
  \/ WritesBack /\ row = sup.row
  \/ sup.job = "boot" /\ row \in sup.todo
  \/ call[Super].pc \in {"mark", "spawn", "record", "commit"} /\ row = call[Super].row

\* All of those of an app have the same count: none of them is behind.
CountsAgree ==
  \A x, y \in App : InUse(x) /\ InUse(y) /\ x.id = y.id => x.count = y.count

CountInv == Inv /\ IdInv /\ TaskInv /\ NoDirectStart /\ NoEdits /\ CountsAgree

\* A row with id and count of one in use.
Known(row) == \E x \in App : InUse(x) /\ x.id = row.id /\ x.count = row.count

\* A step that only copies rows, or changes other things in them.
Copied ==
  /\ \A n \in Names : apps'[n] # None => Known(apps'[n])
  /\ WritesBack' => Known(sup'.row)
  /\ sup'.job = "boot" => \A row \in sup'.todo : Known(row)
  /\ call'[Super].pc \in {"mark", "spawn", "record", "commit"} => Known(call'[Super].row)

\* Of the operators on rows, Retried alone changes the count.
LEMMA CountsStay ==
  ASSUME NEW app \in App, Known(app)
  PROVE  /\ \A state \in AppState : Known(InState(app, state))
         /\ Known(Started(app))
         /\ \A pid \in Pids : Known(Running(app, pid))
         /\ \A code \in ExitCode \cup {None} : Known(Stopped(app, code))
         /\ Known(Forgotten(app))
         /\ \A code \in ExitCode \cup {None} : Known(Exited(app, code))
         /\ AfterExit(app).state # "Restarting" => Known(AfterExit(app))
  <1>1. ASSUME NEW new, new.id = app.id, new.count = app.count PROVE Known(new)
    BY <1>1 DEF Known
  <1>2. \A state \in AppState : Known(InState(app, state))
    BY <1>1 DEF InState, App
  <1>3. Known(Started(app)) /\ Known(Forgotten(app))
    BY <1>1 DEF InState, Started, Forgotten, App
  <1>4. \A pid \in Pids : Known(Running(app, pid))
    BY <1>1 DEF Running, App
  <1>5. \A code \in ExitCode \cup {None} : Known(Stopped(app, code)) /\ Known(Exited(app, code))
    BY <1>1 DEF Stopped, Exited, App
  <1>6. AfterExit(app).state # "Restarting" => Known(AfterExit(app))
    <2>1. Retried(app).state = "Restarting"
      BY DEF Retried, App
    <2>2. \A state \in AppState : InState(app, state) \in App
      BY RowsStayRows
    <2> QED BY <1>2, <2>1 DEF AfterExit, AppState
  <1> QED BY <1>2, <1>3, <1>4, <1>5, <1>6

LEMMA SaveCopies ==
  ASSUME StoreTypeOK, NEW row \in App, Known(row), Save(row)
  PROVE  \A n \in Names : apps'[n] # None => Known(apps'[n])
  <1>1. \A n \in Stored : Known(apps[n])
    BY DEF StoreTypeOK, Stored, Known, InUse
  <1> QED BY <1>1 DEF Save, StoreTypeOK, Stored

\* Rows in use are known.
LEMMA UsedRows ==
  ASSUME Inv
  PROVE  /\ \A n \in Names : apps[n] # None => apps[n] \in App /\ Known(apps[n])
         /\ WritesBack => sup.row \in App /\ Known(sup.row)
         /\ sup.job = "boot" => \A row \in sup.todo : row \in App /\ Known(row)
         /\ call[Super].pc \in {"mark", "spawn", "record", "commit"} =>
              call[Super].row \in App /\ Known(call[Super].row)
  <1>0. /\ StoreTypeOK /\ TaskReady /\ CallsReady /\ sup.todo \subseteq App /\ Super \in Callers
    BY DEF Inv, TypeOK, SupervisorTypeOK, Task, Callers
  <1>1. \A row \in App : InUse(row) => Known(row)
    BY DEF Known
  <1>2. \A n \in Names : apps[n] # None => apps[n] \in App /\ InUse(apps[n])
    BY <1>0 DEF StoreTypeOK, InUse, Stored
  <1>3. WritesBack => sup.row \in App /\ InUse(sup.row)
    BY <1>0 DEF WritesBack, TaskReady, InUse
  <1>4. sup.job = "boot" => \A row \in sup.todo : row \in App /\ InUse(row)
    BY <1>0 DEF InUse
  <1>5. call[Super].pc \in {"mark", "spawn", "record", "commit"} =>
          call[Super].row \in App /\ InUse(call[Super].row)
    BY <1>0 DEF CallsReady, InUse
  <1> QED BY <1>1, <1>2, <1>3, <1>4, <1>5

\* start::execute changes the row that it has read.
LEMMA StartCopies ==
  ASSUME Inv, StartStep(Super), UNCHANGED supVars
  PROVE  Copied
  <1>0. /\ StoreTypeOK /\ StartTypeOK /\ CallsReady /\ Super \in Callers /\ call[Super] \in Call
        /\ UNCHANGED sup
    BY DEF Inv, TypeOK, StartTypeOK, Callers, supVars
  <1>1. /\ WritesBack' => Known(sup'.row)
        /\ sup'.job = "boot" => \A row \in sup'.todo : Known(row)
    BY <1>0, UsedRows DEF WritesBack
  <1>2. ASSUME NEW pc, NEW row, Continue(Super, pc, row) PROVE call'[Super].row = row
    BY <1>0, <1>2 DEF Continue, StartTypeOK, Call
  <1>3. ASSUME NEW pc \in {"failed", "done"}, Return(Super, pc) PROVE call'[Super].pc = pc
    BY <1>0, <1>3 DEF Return, Returned, StartTypeOK, Call
  <1>4. CASE StartRead(Super)
    <2>1. /\ UNCHANGED apps /\ call[Super].pc = "read" /\ call[Super].app \in Names
      BY <1>0, <1>4 DEF StartRead, storeVars, CallsReady
    <2>2. apps[call[Super].app] # None => Known(Started(apps[call[Super].app]))
      BY <2>1, UsedRows, CountsStay
    <2> QED BY <1>1, <1>2, <1>3, <1>4, <2>1, <2>2, UsedRows DEF StartRead, Copied
  <1>5. CASE StartMark(Super) \/ StartCommit(Super)
    <2>1. call[Super].row \in App /\ Known(call[Super].row)
      BY <1>5, UsedRows DEF StartMark, StartCommit
    <2>2. CASE StartMark(Super)
      BY <1>0, <1>1, <1>2, <2>1, <2>2, SaveCopies DEF StartMark, Copied
    <2>3. CASE StartCommit(Super)
      <3>1. call[Super].child \in Pids
        BY <1>0, <2>3 DEF StartCommit, CallsReady
      <3>2. PICK row \in App : row = Running(call[Super].row, call[Super].child) /\ Known(row)
        BY <2>1, <3>1, RowsStayRows, CountsStay
      <3>3. Save(row)
        BY <2>3, <3>2 DEF StartCommit
      <3>4. \A n \in Names : apps'[n] # None => Known(apps'[n])
        BY <1>0, <3>2, <3>3, SaveCopies
      <3>5. call'[Super].pc = "done"
        BY <1>3, <2>3 DEF StartCommit
      <3> QED BY <1>1, <3>4, <3>5 DEF Copied
    <2> QED BY <1>5, <2>2, <2>3
  <1>6. CASE StartSpawn(Super)
    <2>1. UNCHANGED apps /\ call'[Super].row = call[Super].row /\ call[Super].pc = "spawn"
      BY <1>0, <1>6 DEF StartSpawn, storeVars, StartTypeOK, Call
    <2> QED BY <1>1, <2>1, UsedRows DEF Copied
  <1>7. CASE StartRecord(Super)
    BY <1>1, <1>2, <1>7, UsedRows DEF StartRecord, InsertRun, Copied
  <1>8. CASE SpawnFails(Super) \/ StartRefused(Super)
    BY <1>1, <1>3, <1>8, UsedRows DEF SpawnFails, StartRefused, storeVars, Copied
  <1> QED BY <1>4, <1>5, <1>6, <1>7, <1>8 DEF StartStep

\* A handler that returns leaves the loop what it has still to visit.
LEMMA FinishCopies ==
  ASSUME Inv, Finish
  PROVE  ~WritesBack' /\ (sup'.job = "boot" => \A row \in sup'.todo : Known(row))
  <1>1. /\ sup'.pc \in {"idle", "next"} /\ sup'.job = sup.job /\ sup'.todo \subseteq sup.todo
    BY FinishType DEF Inv, TypeOK
  <1> QED BY <1>1, UsedRows DEF WritesBack

\* Of what the task does with its rows, the restart after an exit alone is more
\* than to copy and to rewrite them.
LEMMA SupervisorHoldsKnown ==
  ASSUME Inv, SupervisorNext
  PROVE  /\ WritesBack' => Known(sup'.row)
         /\ sup'.job = "boot" => \A row \in sup'.todo : Known(row)
  <1> DEFINE Holds == /\ WritesBack' => Known(sup'.row)
                      /\ sup'.job = "boot" => \A row \in sup'.todo : Known(row)
  <1> SUFFICES Holds
    OBVIOUS
  <1>0. /\ sup \in Task /\ queue \in Seq(Message) /\ TaskReady /\ SlotFree /\ StoreTypeOK
    BY DEF Inv, TypeOK, SupervisorTypeOK
  <1>1. ASSUME ~WritesBack', sup'.todo \subseteq sup.todo, sup'.job = sup.job PROVE Holds
    BY <1>1, UsedRows
  <1>2. ASSUME sup'.row = sup.row, WritesBack' => WritesBack, sup'.todo = sup.todo,
               sup'.job = sup.job
        PROVE  Holds
    BY <1>2, UsedRows
  <1>3. CASE UNCHANGED sup
    BY <1>2, <1>3 DEF WritesBack
  <1>4. CASE Finish
    BY <1>4, FinishCopies
  <1>5. ASSUME Unhealthy, sup.job # "boot" PROVE Holds
    <2>1. CASE ~Finish
      BY <1>0, <1>1, <1>5, <2>1 DEF Unhealthy, WritesBack, Task
    <2> QED BY <1>4, <2>1
  <1>6. ASSUME sup' = AfterStop, sup.job # "boot" PROVE Holds
    <2>1. CASE ~Finish
      BY <1>0, <1>1, <1>6, <2>1 DEF AfterStop, Finish, WritesBack, Task
    <2> QED BY <1>4, <2>1
  <1>7. sup' = IdleTask => Holds
    BY DEF IdleTask, WritesBack
  <1>8. CASE Receive
    <2>1. Head(queue) \in Message
      BY <1>0, <1>8 DEF Receive
    <2>2. Handler(Head(queue).kind) \in {"startCheck", "stop", "restart", "health", "exit"}
      BY <2>1 DEF Handler, Message
    <2> QED BY <1>0, <1>1, <1>8, <2>2 DEF Receive, Task, WritesBack
  <1>9. CASE Restore
    <2>1. sup'.pc = "next" /\ sup'.todo = GetByState("Running")
      BY <1>0, <1>9 DEF Restore, Task
    <2> QED BY <2>1, UsedRows DEF GetByState, Stored, WritesBack
  <1>10. CASE Tick
    BY <1>0, <1>10 DEF Tick, Task, WritesBack
  <1>11. CASE NextApp
    <2>1. PICK row \in sup.todo :
            IF sup.job = "boot"
              THEN sup' = [sup EXCEPT !.pc = "starting", !.app = row.name, !.row = row,
                                      !.todo = @ \ {row}]
              ELSE sup' = [sup EXCEPT !.pc = "health", !.app = row.name, !.todo = @ \ {row}]
      BY <1>11 DEF NextApp
    <2>2. sup'.row = row \/ sup'.job # "boot"
      BY <1>0, <2>1 DEF Task
    <2>3. sup'.todo \subseteq sup.todo /\ sup'.job = sup.job
      BY <1>0, <2>1 DEF Task
    <2>4. sup'.job # "boot" => ~WritesBack'
      BY <1>0, <2>1 DEF Task, WritesBack
    <2> QED BY <2>2, <2>3, <2>4, UsedRows
  <1>12. CASE StartCheck
    <2>1. sup.job # "boot"
      BY <1>0, <1>12 DEF StartCheck, At, SlotFree
    <2> QED BY <1>0, <1>1, <1>4, <1>12, <2>1 DEF StartCheck, Goto, Task, WritesBack
  <1>13. CASE StartFailed
    <2>1. CASE sup.job = "boot"
      BY <1>0, <1>2, <1>13, <2>1 DEF StartFailed, At, Goto, Task, WritesBack
    <2> QED BY <1>4, <1>13, <2>1 DEF StartFailed
  <1>14. CASE StopRead \/ ExitRead
    <2>1. sup.app \in Names /\ sup.job # "boot"
      BY <1>0, <1>14 DEF StopRead, ExitRead, At, TaskReady, SlotFree
    <2>2. CASE Row # None
      <3>1. Row \in App /\ Known(Row)
        BY <2>1, <2>2, UsedRows DEF Row
      <3>2. sup'.row \in {Row, Exited(Row, sup.code)} /\ sup'.job = sup.job
        BY <1>0, <1>14, <2>2 DEF StopRead, ExitRead, Task
      <3>3. Known(Exited(Row, sup.code))
        BY <1>0, <3>1, CountsStay DEF Task
      <3> QED BY <2>1, <3>1, <3>2, <3>3
    <2> QED BY <1>4, <1>14, <2>2 DEF StopRead, ExitRead
  <1>15. CASE StopMark
    <2>1. sup.job # "boot" /\ sup.row \in App /\ Known(sup.row)
      BY <1>0, <1>15, UsedRows DEF StopMark, At, SlotFree, WritesBack
    <2>2. Known(InState(sup.row, "Stopping"))
      BY <2>1, CountsStay DEF AppState
    <2>3. ~Finish => sup'.row = InState(sup.row, "Stopping") /\ sup'.job = sup.job
      BY <1>0, <1>15 DEF StopMark, Task
    <2> QED BY <1>4, <2>1, <2>2, <2>3
  <1>16. CASE Kill \/ CloseRun \/ ExitClose
    BY <1>0, <1>2, <1>16 DEF Kill, CloseRun, ExitClose, At, Goto, Task, WritesBack
  <1>17. CASE RestartRead \/ HealthRead \/ ProbePasses \/ ProbeFails \/ StopSave \/ ExitSave
    <2>1. sup.job # "boot"
      BY <1>0, <1>17 DEF RestartRead, HealthRead, ProbePasses, ProbeFails, StopSave, ExitSave, At,
         SlotFree
    <2>2. CASE ~Finish /\ ~Unhealthy /\ sup' # AfterStop
      BY <1>0, <1>1, <1>17, <2>1, <2>2 DEF RestartRead, HealthRead, ProbePasses, ProbeFails,
         StopSave, ExitSave, Goto, Task, WritesBack
    <2> QED BY <1>4, <1>5, <1>6, <2>1, <2>2
  <1>18. CASE StatementFails
    <2>1. sup.pc = "health" => sup.job # "boot"
      BY <1>0 DEF SlotFree
    <2> QED BY <1>3, <1>4, <1>5, <1>7, <1>18, <2>1 DEF StatementFails, At
  <1> QED BY <1>4, <1>7, <1>8, <1>9, <1>10, <1>11, <1>12, <1>13, <1>14, <1>15, <1>16, <1>17, <1>18
          DEF SupervisorNext, Work, LoopEnds, StartDone, RestoreFail

LEMMA SupervisorCopies ==
  ASSUME Inv, SupervisorNext, ExitSave => AfterExit(sup.row).state # "Restarting"
  PROVE  Copied
  <1>0. /\ sup \in Task /\ TaskReady /\ StoreTypeOK /\ StartTypeOK /\ Super \in Callers
    BY DEF Inv, TypeOK, SupervisorTypeOK, Callers
  <1>1. call'[Super].pc \in {"mark", "spawn", "record", "commit"} => Known(call'[Super].row)
    <2>1. CASE UNCHANGED call
      BY <2>1, UsedRows
    <2>2. ASSUME NEW n, CallStart(n) PROVE call'[Super].pc = "read"
      BY <1>0, <2>2 DEF CallStart, StartCall, IdleCall, StartTypeOK
    <2>3. call' = [call EXCEPT ![Super] = IdleCall] => call'[Super].pc = "idle"
      BY <1>0 DEF StartTypeOK, IdleCall
    <2>4. Return(Super, "failed") => call'[Super].pc = "failed"
      BY <1>0 DEF Return, Returned, StartTypeOK, Call
    <2> QED BY <2>1, <2>2, <2>3, <2>4 DEF SupervisorNext, Work, Receive, Tick, StatementFails,
          Restore, NextApp, LoopEnds, StartCheck, StartDone, StartFailed, RestoreFail, StopRead,
          StopMark, Kill, CloseRun, StopSave, RestartRead, HealthRead, ProbePasses, ProbeFails,
          ExitRead, ExitClose, ExitSave
  <1>2. \A n \in Names : apps'[n] # None => Known(apps'[n])
    <2>1. CASE UNCHANGED apps
      BY <2>1, UsedRows
    <2>2. CASE RestoreFail \/ StopMark \/ StopSave \/ ExitSave
      <3>1. /\ sup.pc \in {"restoreFail", "stopMark", "stopSave", "forget", "exitSave"}
            /\ sup.row \in App /\ sup.code \in ExitCode \cup {None} /\ Known(sup.row)
        BY <1>0, <2>2, UsedRows DEF RestoreFail, StopMark, StopSave, ExitSave, At, WritesBack, Task
      <3>2. ASSUME NEW row, row \in App, Known(row), Save(row) \/ UNCHANGED storeVars
            PROVE  \A n \in Names : apps'[n] # None => Known(apps'[n])
        BY <1>0, <2>1, <3>2, SaveCopies DEF storeVars
      <3>3. CASE RestoreFail
        <4>1. InState(sup.row, "Failed") \in App /\ Known(InState(sup.row, "Failed"))
          BY <3>1, RowsStayRows, CountsStay DEF AppState
        <4> QED BY <3>2, <3>3, <4>1 DEF RestoreFail
      <3>4. CASE StopMark
        <4>1. InState(sup.row, "Stopping") \in App /\ Known(InState(sup.row, "Stopping"))
          BY <3>1, RowsStayRows, CountsStay DEF AppState
        <4> QED BY <3>2, <3>4, <4>1 DEF StopMark
      <3>5. CASE StopSave
        <4>1. Stopped(sup.row, sup.code) \in App /\ Known(Stopped(sup.row, sup.code))
          BY <3>1, RowsStayRows, CountsStay
        <4>2. Forgotten(sup.row) \in App /\ Known(Forgotten(sup.row))
          BY <3>1, RowsStayRows, CountsStay
        <4> QED BY <3>2, <3>5, <4>1, <4>2 DEF StopSave
      <3>6. CASE ExitSave
        <4>1. AfterExit(sup.row) \in App /\ Known(AfterExit(sup.row))
          BY <3>1, <3>6, RowsStayRows, CountsStay
        <4> QED BY <3>2, <3>6, <4>1 DEF ExitSave
      <3> QED BY <2>2, <3>3, <3>4, <3>5, <3>6
    <2> QED BY <2>1, <2>2 DEF SupervisorNext, Work, Receive, Tick, StatementFails, Restore, NextApp,
          LoopEnds, StartCheck, StartDone, StartFailed, StopRead, Kill, CloseRun, RestartRead,
          HealthRead, ProbePasses, ProbeFails, ExitRead, ExitClose, CloseLatestRun, storeVars
  <1> QED BY <1>1, <1>2, SupervisorHoldsKnown DEF Copied

\* A request that is neither to write a row nor to start an app does not.
LEMMA NextEditsNone ==
  ASSUME SoleWriter, Inv, NoEdits, [Next]_vars
  PROVE  NoEdits'
  <1>0. ApiTypeOK
    BY DEF Inv, TypeOK
  <1>1. CASE UNCHANGED req
    BY <1>1 DEF NoEdits
  <1>2. CASE \E r \in Requests : RequestNext(r)
    <2>1. PICK r \in Requests : RequestNext(r)
      BY <1>2
    <2>2. req[r] \in Request
      BY <1>0 DEF ApiTypeOK
    <2>3. ASSUME NEW frame, frame.pc \notin {"write", "deployed", "envSave"}, Step(r, frame)
          PROVE  NoEdits'
      BY <1>0, <2>3 DEF Step, NoEdits, ApiTypeOK
    <2>4. CASE Respond(r)
      <3>1. IdleRequest.pc = "idle"
        BY DEF IdleRequest
      <3> QED BY <2>3, <2>4, <3>1 DEF Respond
    <2>5. /\ ~DeployCheck(r) /\ ~EnvRead(r)
          /\ ~DeployWrite(r) /\ ~DeployBusy(r) /\ ~DeploySave(r) /\ ~EnvSave(r)
      BY DEF SoleWriter, NoEdits, DeployCheck, EnvRead, DeployWrite, DeployBusy, DeploySave, EnvSave,
         SaveRow, ReqAt
    <2>6. CASE CreateCheck(r) \/ DeleteCheck(r) \/ StopCheck(r) \/ RestartCheck(r)
      BY <1>0, <2>6 DEF CreateCheck, DeleteCheck, StopCheck, RestartCheck, Step, IdleRequest, NoEdits,
         ApiTypeOK
    <2>7. CASE CreateSetup(r) \/ DeleteFiles(r) \/ DeleteHistory(r)
      <3>1. \A s \in Requests \ {r} : req'[s] = req[s]
        BY <1>0, <2>7 DEF CreateSetup, DeleteFiles, DeleteHistory, Step, ApiTypeOK
      <3>2. CASE CreateSetup(r)
        BY <1>0, <2>2, <3>1, <3>2 DEF CreateSetup, Step, Request, NoEdits, ApiTypeOK
      <3>3. CASE DeleteFiles(r)
        BY <1>0, <2>2, <3>1, <3>3 DEF DeleteFiles, Step, Request, NoEdits, ApiTypeOK
      <3>4. CASE DeleteHistory(r)
        BY <1>0, <2>2, <3>1, <3>4 DEF DeleteHistory, Step, Request, NoEdits, ApiTypeOK
      <3> QED BY <2>7, <3>2, <3>3, <3>4
    <2> QED BY <1>1, <2>1, <2>4, <2>5, <2>6, <2>7 DEF RequestNext, Begin, Proceed, ApiStart,
          CreateSave, SaveRow, DeleteRow, Send, Abandon
  <1>3. CASE Crash
    BY <1>3 DEF Crash, IdleRequest, NoEdits
  <1> QED BY <1>1, <1>2, <1>3 DEF Next, SupervisorNext, CallNext, ProcessNext, LibrarySend, vars

\* Two steps put a new count into the table: that of a creation and that of a
\* restart after an exit.
LEMMA NextCopies ==
  ASSUME CountInv, [Next]_vars, ExitSave => AfterExit(sup.row).state # "Restarting",
         \A r \in Requests : ~CreateSave(r)
  PROVE  Copied
  <1>0. Inv /\ NoDirectStart /\ NoEdits /\ StartTypeOK /\ Super \in Callers
    BY DEF CountInv, Inv, TypeOK, Callers
  <1>1. ASSUME UNCHANGED <<sup, call[Super]>>, \A n \in Names : apps'[n] \in {apps[n], None}
        PROVE  Copied
    BY <1>0, <1>1, UsedRows DEF Copied, WritesBack
  <1>2. CASE SupervisorNext
    BY <1>0, <1>2, SupervisorCopies
  <1>3. CASE \E c \in Callers : CallNext(c)
    <2>1. PICK c \in Callers : StartStep(c) /\ UNCHANGED supVars
      BY <1>3 DEF CallNext
    <2>2. call[c].pc # "idle"
      BY <2>1 DEF StartStep, StartRead, StartMark, StartSpawn, SpawnFails, StartRecord,
         StartCommit, StartRefused
    <2>3. c = Super
      BY <1>0, <2>2 DEF NoDirectStart, Callers
    <2> QED BY <1>0, <2>1, <2>3, StartCopies
  <1>4. CASE \E r \in Requests : RequestNext(r)
    <2>1. PICK r \in Requests : RequestNext(r)
      BY <1>4
    <2>2. UNCHANGED sup /\ call'[Super] = call[Super]
      BY <1>0, <2>1, RequestsKeepSuper, RequestsKeepSupervisor DEF Inv, TypeOK, RequestNext
    <2>3. ~DeploySave(r) /\ ~EnvSave(r)
      BY <1>0 DEF NoEdits, DeploySave, EnvSave, SaveRow, ReqAt
    <2>4. \A n \in Names : apps'[n] \in {apps[n], None}
      <3>1. CASE DeleteRow(r)
        BY <3>1 DEF DeleteRow, DeleteApp, storeVars
      <3> QED BY <2>1, <2>3, <3>1 DEF RequestNext, Begin, Proceed, CreateCheck, DeleteCheck,
            DeployCheck, EnvRead, StopCheck, RestartCheck, ApiStart, CreateSetup, DeleteFiles,
            DeleteHistory, DeleteRuns, DeployWrite, DeployBusy, Send, Abandon, storeVars
    <2> QED BY <1>1, <2>2, <2>4
  <1>5. CASE (\E p \in Pids : ProcessNext(p)) \/ LibrarySend \/ UNCHANGED vars
    BY <1>1, <1>5 DEF ProcessNext, LibrarySend, vars, supVars, storeVars
  <1>6. CASE Crash
    <2>1. /\ UNCHANGED apps /\ sup'.pc = "restore" /\ sup'.todo = {}
          /\ call'[Super].pc = "idle"
      BY <1>6 DEF Crash, BootTask, IdleTask, IdleCall, Callers, storeVars
    <2> QED BY <1>0, <2>1, UsedRows DEF Copied, WritesBack
  <1> QED BY <1>2, <1>3, <1>4, <1>5, <1>6 DEF Next

\* What is in use after a step: what the parts of Copied are about.
LEMMA InUseNext ==
  ASSUME NEW row, InUse(row)'
  PROVE  \/ \E n \in Names : apps'[n] # None /\ row = apps'[n]
         \/ WritesBack' /\ row = sup'.row
         \/ sup'.job = "boot" /\ row \in sup'.todo
         \/ call'[Super].pc \in {"mark", "spawn", "record", "commit"} /\ row = call'[Super].row
  BY DEF InUse, Stored

\* The rows in use, and each under the name that its id was given to.
LEMMA UsedAtHome ==
  ASSUME Inv, IdInv, NEW row \in App, InUse(row)
  PROVE  /\ row \in HomeRows
         /\ \A r \in Requests : req[r].pc = "insert" => req[r].row.id # row.id
  <1>1. PICK owner \in Owners : IdsOwned(owner)
    BY DEF IdInv
  <1>2. Super \in Callers /\ StoreTypeOK
    BY DEF Callers, Inv, TypeOK
  <1>3. row \in OwnedBy(owner)
    BY <1>1, <1>2, NoneIsNoApp DEF InUse, IdsOwned, RowsIn, Stored
  <1>4. RowsIn(HomeRows)
    BY CopiesAtHome
  <1>5. row \in HomeRows
    BY <1>2, <1>4, NoneIsNoApp DEF InUse, RowsIn, Stored
  <1>6. \A r \in Requests : req[r].pc = "insert" => owner[req[r].row.id] = None
    BY <1>1 DEF IdsOwned, Creating, Promised
  <1>7. owner[row.id] # None
    BY <1>3, AppModelAssumption DEF OwnedBy, App
  <1> QED BY <1>5, <1>6, <1>7

\* The count of the stored row after a step.
CountKept(n) ==
  apps[n] # None /\ apps'[n] # None => apps'[n].count = apps[n].count + RetriedBy(n)

\* One step goes from the save of handle_process_exit to start_process.
LEMMA RetriedOnce ==
  ASSUME Inv, [Next]_vars, NEW n, RetriedBy(n) # 0
  PROVE  ExitSave /\ AfterExit(sup.row).state = "Restarting"
  <1>0. SupervisorTypeOK /\ RequestsReady
    BY DEF Inv, TypeOK
  <1>1. sup.pc = "exitSave" /\ sup'.pc = "starting"
    BY DEF RetriedBy
  <1>2. ~Finish
    BY <1>0, <1>1, FinishType
  <1>3. sup' # sup
    BY <1>1
  <1>4. CASE SupervisorNext
    BY <1>1, <1>2, <1>4 DEF SupervisorNext, Work, Receive, Tick, StatementFails, Restore, NextApp,
       LoopEnds, StartCheck, StartDone, StartFailed, RestoreFail, StopRead, StopMark, Kill, CloseRun,
       StopSave, RestartRead, HealthRead, ProbePasses, ProbeFails, ExitRead, ExitClose, ExitSave, At
  <1>5. ~(\E r \in Requests : RequestNext(r))
    BY <1>0, <1>3, RequestsKeepSupervisor DEF RequestNext
  <1>6. ~Crash
    BY <1>1 DEF Crash, BootTask, IdleTask
  <1> QED BY <1>3, <1>4, <1>5, <1>6 DEF Next, CallNext, ProcessNext, LibrarySend, vars, supVars

LEMMA CopiesKeepCounts ==
  ASSUME CountInv, [Next]_vars, Copied, ExitSave => AfterExit(sup.row).state # "Restarting"
  PROVE  CountsAgree' /\ \A n \in Names : CountKept(n)
  <1>0. Inv /\ CountsAgree /\ StoreTypeOK /\ Rooted
    BY DEF CountInv, Inv, TypeOK
  <1>1. CountsAgree'
    <2> SUFFICES ASSUME NEW x \in App, NEW y \in App, InUse(x)', InUse(y)', x.id = y.id
                 PROVE  x.count = y.count
      BY DEF CountsAgree
    <2>1. Known(x) /\ Known(y)
      BY InUseNext DEF Copied
    <2> QED BY <1>0, <2>1 DEF Known, CountsAgree
  <1>2. ASSUME NEW n \in Names, apps[n] # None, apps'[n] # None
        PROVE  apps'[n].count = apps[n].count + RetriedBy(n)
    <2>1. apps[n] \in App /\ InUse(apps[n])
      BY <1>0, <1>2 DEF StoreTypeOK, InUse, Stored
    <2>2. PICK x \in App : InUse(x) /\ x.id = apps'[n].id /\ x.count = apps'[n].count
      BY <1>2 DEF Copied, Known
    <2>3. apps'[n].id = apps[n].id
      <3>1. RowsStep(App)
        BY <1>0, SavesRows
      <3>2. CASE \E row \in App : Save(row)
        BY <1>0, <1>2, <3>2 DEF Save, Saveable, StoreTypeOK
      <3>3. CASE \E r \in Requests : DeleteRow(r)
        BY <1>2, <3>3 DEF DeleteRow, DeleteApp, storeVars
      <3> QED BY <3>1, <3>2, <3>3 DEF RowsStep
    <2>4. x.count = apps[n].count
      BY <1>0, <2>1, <2>2, <2>3 DEF CountsAgree
    <2>5. RetriedBy(n) = 0
      BY <1>0, RetriedOnce
    <2> QED BY <2>1, <2>2, <2>4, <2>5 DEF App
  <1> QED BY <1>1, <1>2 DEF CountKept

\* The row of a new app has a name and an id that are in use nowhere.
LEMMA CreationKeepsCounts ==
  ASSUME CountInv, NEW r \in Requests, CreateSave(r)
  PROVE  CountsAgree' /\ \A n \in Names : CountKept(n)
  <1>0. Inv /\ IdInv /\ CountsAgree /\ StoreTypeOK /\ RequestsReady /\ req[r].pc = "insert"
    BY DEF CountInv, Inv, TypeOK, CreateSave, SaveRow, ReqAt
  <1>1. PICK row \in App : row = req[r].row
    BY <1>0 DEF RequestsReady
  <1>2. UNCHANGED <<sup, call>>
    BY DEF CreateSave, SaveRow, supVars
  <1>3. \A n \in Names : apps'[n] = apps[n] \/ (n = row.name /\ apps[n] = None /\ apps'[n] = row)
    <2>1. Save(row) \/ UNCHANGED apps
      BY <1>1 DEF CreateSave, SaveRow, storeVars
    <2>2. ~HasId(row.id)
      BY <1>0, <1>1, NewRowsAtHome
    <2>3. apps[row.name] = None \/ ~Saveable(row)
      BY <2>2 DEF Saveable, HasId, Stored, App
    <2> QED BY <1>0, <2>1, <2>3 DEF Save, StoreTypeOK
  <1>4. ASSUME NEW x \in App, InUse(x)' PROVE InUse(x) \/ x = row
    BY <1>2, <1>3, <1>4, InUseNext DEF InUse, WritesBack, Stored
  <1>5. \A x \in App : InUse(x) => x.id # row.id
    BY <1>0, <1>1, UsedAtHome
  <1>6. CountsAgree'
    BY <1>0, <1>4, <1>5 DEF CountsAgree
  <1>7. \A n \in Names : CountKept(n)
    <2>1. \A n : RetriedBy(n) = 0
      BY <1>2 DEF RetriedBy
    <2> QED BY <1>0, <1>3, <2>1 DEF CountKept, StoreTypeOK, App
  <1> QED BY <1>6, <1>7

\* A restart after an exit adds one to the count, and leaves no copy of the row
\* from before in use.
LEMMA RetryKeepsCounts ==
  ASSUME CountInv, ExitSave, AfterExit(sup.row).state = "Restarting"
  PROVE  CountsAgree' /\ \A n \in Names : CountKept(n)
  <1>0. /\ Inv /\ IdInv /\ CountsAgree /\ StoreTypeOK /\ StartTypeOK /\ sup \in Task /\ TaskReady
        /\ SlotFree /\ OwnRow /\ SupervisorTypeOK /\ Super \in Callers
    BY DEF CountInv, TaskInv, Inv, TypeOK, SupervisorTypeOK, Callers
  <1>1. /\ sup.pc = "exitSave" /\ sup.job # "boot" /\ sup.row \in App /\ sup.app \in Names
        /\ InUse(sup.row)
    BY <1>0 DEF ExitSave, At, SlotFree, TaskReady, InUse, WritesBack
  <1>2. PICK row \in App : row = AfterExit(sup.row) /\ row.id = sup.row.id
                           /\ row.name = sup.row.name /\ row.count = sup.row.count + 1
    <2>1. AfterExit(sup.row) \in App
      BY <1>1, RowsStayRows
    <2>2. /\ AfterExit(sup.row).id = sup.row.id /\ AfterExit(sup.row).name = sup.row.name
          /\ AfterExit(sup.row).count = sup.row.count + 1
      <3>1. AfterExit(sup.row) = Retried(sup.row)
        BY <1>1 DEF AfterExit, InState, App
      <3> QED BY <1>1, <3>1 DEF Retried, App
    <2> QED BY <2>1, <2>2
  <1>3. CASE Save(row)
    <2>1. /\ Saveable(row) /\ apps'[row.name] = row /\ row.name \in Names
          /\ \A n \in Names \ {row.name} : apps'[n] = apps[n]
      BY <1>0, <1>3 DEF Save, StoreTypeOK, App
    <2>2. sup'.pc = "starting" /\ sup'.job # "boot" /\ call'[Super].pc = "read"
      <3>1. Saveable(row) /\ row.state = "Restarting"
        BY <1>2, <2>1
      <3>2. Goto("starting") /\ CallStart(sup.app)
        BY <1>2, <3>1 DEF ExitSave
      <3> QED BY <1>0, <1>1, <3>2 DEF Goto, CallStart, StartCall, IdleCall, StartTypeOK, Task
    <2>3. sup.row \in HomeRows /\ \A n \in Names : apps[n] # None => apps[n] \in HomeRows
      <3>1. \A n \in Names : apps[n] # None => apps[n] \in App /\ InUse(apps[n])
        BY <1>0 DEF StoreTypeOK, InUse, Stored
      <3> QED BY <1>0, <1>1, <3>1, UsedAtHome
    <2>4. CountsAgree'
      <3> SUFFICES ASSUME NEW x \in App, NEW y \in App, InUse(x)', InUse(y)', x.id = y.id
                   PROVE  x.count = y.count
        BY DEF CountsAgree
      <3>1. PICK m \in Names, n \in Names : x = apps'[m] /\ y = apps'[n]
        <4>1. ~WritesBack'
          BY <2>2 DEF WritesBack
        <4> QED BY <2>2, <4>1, InUseNext
      <3>2. m = n
        BY <1>0, <1>2, <2>1, <2>3, <3>1, NoneIsNoApp DEF HomeRows, Stored, CountInv, Inv, Rooted
      <3> QED BY <3>1, <3>2
    <2>5. \A n \in Names : CountKept(n)
      <3>1. ASSUME NEW n \in Names, apps[n] # None, apps'[n] # None
            PROVE  apps'[n].count = apps[n].count + RetriedBy(n)
        <4>0. row.name = sup.app
          BY <1>0, <1>1, <1>2, NoneIsNoApp DEF OwnRow
        <4>1. apps[n] \in App /\ InUse(apps[n])
          BY <1>0, <3>1 DEF StoreTypeOK, InUse, Stored
        <4>2. CASE n = row.name
          <5>1. apps[n].id = sup.row.id
            BY <1>2, <2>1, <3>1, <4>2 DEF Saveable
          <5>2. apps[n].count = sup.row.count
            BY <1>0, <1>1, <4>1, <5>1 DEF CountsAgree
          <5>3. RetriedBy(n) = 1
            BY <1>1, <2>2, <4>0, <4>2 DEF RetriedBy
          <5> QED BY <1>2, <2>1, <4>2, <5>2, <5>3
        <4>3. CASE n # row.name
          <5>1. RetriedBy(n) = 0
            BY <4>0, <4>3 DEF RetriedBy
          <5> QED BY <2>1, <3>1, <4>1, <4>3, <5>1 DEF App
        <4> QED BY <4>2, <4>3
      <3> QED BY <3>1 DEF CountKept
    <2> QED BY <2>4, <2>5
  <1>4. CASE ~Save(row)
    <2>1. UNCHANGED <<apps, call>> /\ Finish
      BY <1>2, <1>4 DEF ExitSave, storeVars
    <2>2. ~WritesBack' /\ sup'.job # "boot"
      BY <1>0, <1>1, <2>1, FinishCopies, FinishType DEF Inv, TypeOK
    <2>3. \A x \in App : InUse(x)' => InUse(x)
      BY <2>1, <2>2, InUseNext DEF InUse, Stored
    <2>4. CountsAgree'
      BY <1>0, <2>3 DEF CountsAgree
    <2>5. \A n \in Names : CountKept(n)
      <3>1. \A n : RetriedBy(n) = 0
        BY <1>0, <2>1, FinishType DEF RetriedBy
      <3> QED BY <1>0, <2>1, <3>1 DEF CountKept, StoreTypeOK, App
    <2> QED BY <2>4, <2>5
  <1> QED BY <1>3, <1>4

LEMMA NextKeepsCounts ==
  ASSUME SoleWriter, CountInv, [Next]_vars
  PROVE  CountInv' /\ \A n \in Names : CountKept(n)
  <1>1. Inv' /\ IdInv' /\ TaskInv' /\ NoDirectStart' /\ NoEdits'
    BY NextKeepsInv, NextKeepsIds, NextKeepsTask, NextStartsNoneDirectly, NextEditsNone
       DEF CountInv, SoleWriter, Inv, TypeOK
  <1>2. CountsAgree' /\ \A n \in Names : CountKept(n)
    <2>1. CASE \E r \in Requests : CreateSave(r)
      BY <2>1, CreationKeepsCounts
    <2>2. CASE ExitSave /\ AfterExit(sup.row).state = "Restarting"
      BY <2>2, RetryKeepsCounts
    <2> QED BY <2>1, <2>2, NextCopies, CopiesKeepCounts
  <1> QED BY <1>1, <1>2 DEF CountInv

LEMMA InitCounts ==
  ASSUME Init
  PROVE  CountInv
  <1>1. Inv /\ IdInv /\ TaskInv
    BY InitClose DEF CloseInv
  <1>2. /\ sup.pc = "restore" /\ sup.todo = {} /\ \A c \in Callers : call[c].pc = "idle"
        /\ NoEdits
    BY DEF Init, BootTask, IdleTask, IdleCall, IdleRequest, NoEdits
  <1>3. CountsAgree
    <2> SUFFICES ASSUME NEW x \in App, NEW y \in App, InUse(x), InUse(y), x.id = y.id
                 PROVE  x.count = y.count
      BY DEF CountsAgree
    <2>1. PICK m \in Stored, n \in Stored : x = apps[m] /\ y = apps[n]
      BY <1>2 DEF InUse, WritesBack, Callers
    <2>2. x \in HomeRows
      BY <1>1, UsedAtHome
    <2> QED BY <1>1, <2>1, <2>2 DEF HomeRows, Inv, Rooted, Stored
  <1> QED BY <1>1, <1>2, <1>3 DEF CountInv, NoDirectStart, Callers

LEMMA CountInvariance == SoleWriter => (Spec => []CountInv)
  <1> SUFFICES ASSUME SoleWriter PROVE Spec => []CountInv
    OBVIOUS
  <1> QED BY InitCounts, NextKeepsCounts, PTL DEF Spec

\* Restarts after exits are counted, once each, and never forgotten as long as
\* requests write no rows back: whatever fails, ends or is deleted, no copy with
\* another count is stored.
THEOREM RestartsCounted == SoleWriter => (Spec => RestartCountKept)
  <1>1. CountInv /\ [Next]_vars /\ SoleWriter =>
          [\A n \in Names : apps[n] # None /\ apps'[n] # None =>
             apps'[n].count = apps[n].count + RetriedBy(n)]_vars
    BY NextKeepsCounts DEF CountKept
  <1> SUFFICES ASSUME SoleWriter PROVE Spec => RestartCountKept
    OBVIOUS
  <1> QED BY <1>1, CountInvariance, PTL DEF Spec, RestartCountKept

==============================================================================
