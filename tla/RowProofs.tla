------------------------------ MODULE RowProofs ------------------------------
(***************************************************************************)
(* Proofs about the rows of table apps, for every value of the constants:  *)
(* an id stays with its name, and max_restarts bounds the restarts.        *)
(*                                                                         *)
(* Rows are copied - into requests, activations and the task - changed     *)
(* there and written back at any later time, so what is to hold of stored  *)
(* rows has to hold of every copy: RowsIn says that all of them are in a   *)
(* set, and NextKeepsRows that they stay in one that no operator on rows   *)
(* leads out of.                                                           *)
(***************************************************************************)
EXTENDS ServerProofs

\* A set of rows that no operator leads out of.
Closed(S) ==
  /\ S \subseteq App
  /\ \A app \in S :
       /\ \A state \in AppState : InState(app, state) \in S
       /\ \A hash \in Hashes : Deployed(app, hash) \in S
       /\ \A port \in Overrides \cup {None} : WithEnv(app, port) \in S
       /\ Started(app) \in S
       /\ \A pid \in Pids : Running(app, pid) \in S
       /\ \A code \in ExitCode \cup {None} : Stopped(app, code) \in S
       /\ Forgotten(app) \in S
       /\ \A code \in ExitCode \cup {None} : Exited(app, code) \in S
       /\ AfterExit(app) \in S

\* The rows that are stored, and those that somebody has read to work on. A row
\* that create is about to insert is not among them.
RowsIn(S) ==
  /\ \A n \in Names : apps[n] \in S \cup {None}
  /\ \A c \in Callers : call[c].row \in S \cup {None}
  /\ \A r \in Requests : req[r].pc # "insert" => req[r].row \in S \cup {None}
  /\ sup.row \in S \cup {None}
  /\ sup.todo \subseteq S

\* What one step may do to table apps: nothing, delete an app, or save a row.
RowsStep(S) ==
  \/ UNCHANGED apps
  \/ \E r \in Requests : DeleteRow(r)
  \/ \E row \in S : Save(row)

\* A step that does as RowsStep says keeps the stored rows in the set.
LEMMA RowsStepKeepsRows ==
  ASSUME StoreTypeOK, NEW S, \A n \in Names : apps[n] \in S \cup {None}, RowsStep(S)
  PROVE  \A n \in Names : apps'[n] \in S \cup {None}
  <1>1. CASE UNCHANGED apps
    BY <1>1
  <1>2. CASE \E r \in Requests : DeleteRow(r)
    BY <1>2 DEF DeleteRow, DeleteApp, storeVars
  <1>3. CASE \E row \in S : Save(row)
    BY <1>3 DEF Save, StoreTypeOK
  <1> QED BY <1>1, <1>2, <1>3 DEF RowsStep

\* No operator on rows makes a row another app's: a set that has, with a row, all
\* rows of that app is closed.
LEMMA IdentityClosed ==
  ASSUME NEW S, S \subseteq App,
         \A row \in S : \A other \in App : other.id = row.id /\ other.name = row.name => other \in S
  PROVE  Closed(S)
  <1> SUFFICES ASSUME NEW app \in S
               PROVE  Closed(S)!2!(app)
    BY DEF Closed
  <1>1. app \in App /\ \A new \in App : new.id = app.id /\ new.name = app.name => new \in S
    OBVIOUS
  <1>2. \A state \in AppState : InState(app, state) \in S
    BY <1>1, RowsStayRows DEF InState, App
  <1>3. \A hash \in Hashes : Deployed(app, hash) \in S
    BY <1>1, RowsStayRows DEF Deployed, App
  <1>4. \A port \in Overrides \cup {None} : WithEnv(app, port) \in S
    BY <1>1 DEF WithEnv, App
  <1>5. Started(app) \in S
    BY <1>2 DEF Started, AppState
  <1>6. \A pid \in Pids : Running(app, pid) \in S
    BY <1>1, RowsStayRows DEF Running, App
  <1>7. \A code \in ExitCode \cup {None} : Stopped(app, code) \in S
    <2>1. \A code : Stopped(app, code).id = app.id /\ Stopped(app, code).name = app.name
      BY DEF Stopped, App
    <2> QED BY <1>1, <2>1, RowsStayRows
  <1>8. Forgotten(app) \in S
    <2>1. Forgotten(app).id = app.id /\ Forgotten(app).name = app.name
      BY DEF Forgotten, App
    <2> QED BY <1>1, <2>1, RowsStayRows
  <1>9. \A code \in ExitCode \cup {None} : Exited(app, code) \in S
    <2>1. \A code : Exited(app, code).id = app.id /\ Exited(app, code).name = app.name
      BY DEF Exited, App
    <2> QED BY <1>1, <2>1, RowsStayRows
  <1>10. AfterExit(app) \in S
    <2>1. Retried(app).id = app.id /\ Retried(app).name = app.name
      BY DEF Retried, App
    <2>2. AfterExit(app) \in {Retried(app)} \cup {InState(app, state) : state \in AppState}
      BY DEF AfterExit, AppState
    <2> QED BY <1>1, <1>2, <2>1, <2>2, RowsStayRows
  <1> QED BY <1>2, <1>3, <1>4, <1>5, <1>6, <1>7, <1>8, <1>9, <1>10

------------------------------------------------------------------------------
\* One part of the program at a time.

\* start::execute saves the row it has read, in another state.
LEMMA StartStepRows ==
  ASSUME Inv, NEW S, Closed(S), RowsIn(S), NEW c \in Callers, StartStep(c)
  PROVE  /\ RowsStep(S)
         /\ \A d \in Callers : call'[d].row \in S \cup {None}
  <1>0. StoreTypeOK /\ StartTypeOK /\ CallsReady /\ call[c] \in Call
        /\ \A d \in Callers : call[d].row \in S \cup {None}
    BY DEF Inv, TypeOK, StartTypeOK, RowsIn
  <1>1. call[c].pc # "idle" /\ call[c].app \in Names
    BY <1>0 DEF StartStep, StartRead, StartMark, StartSpawn, SpawnFails, StartRecord,
           StartCommit, StartRefused, CallsReady
  <1>2. ASSUME UNCHANGED apps PROVE RowsStep(S)
    BY <1>2 DEF RowsStep
  <1>3. ASSUME NEW pc \in {"failed", "done"}, Return(c, pc)
        PROVE  \A d \in Callers : call'[d].row \in S \cup {None}
    <2>1. \A d \in Callers \ {c} : call'[d] = call[d]
      BY <1>0, <1>3 DEF Return, StartTypeOK
    <2>2. call'[c].row = call[c].row \/ call'[c].row = None
      BY <1>0, <1>3 DEF Return, Returned, StartTypeOK, Call, IdleCall
    <2> QED BY <1>0, <2>1, <2>2
  <1>4. ASSUME NEW pc \in {"mark", "spawn", "commit"}, NEW row \in S, Continue(c, pc, row)
        PROVE  \A d \in Callers : call'[d].row \in S \cup {None}
    <2>1. \A d \in Callers \ {c} : call'[d] = call[d]
      BY <1>0, <1>4 DEF Continue, StartTypeOK
    <2>2. call'[c].row = row
      BY <1>0, <1>4 DEF Continue, StartTypeOK, Call
    <2> QED BY <1>0, <1>4, <2>1, <2>2
  <1>5. call[c].pc \in {"mark", "spawn", "record", "commit"} =>
          call[c].row \in S
    BY <1>0, NoneIsNoApp DEF CallsReady
  <1>6. CASE StartRead(c)
    <2>1. UNCHANGED apps
      BY <1>6 DEF StartRead, storeVars
    <2>2. CASE Return(c, "failed")
      BY <1>2, <1>3, <2>1, <2>2
    <2>3. CASE apps[call[c].app] # None /\ Continue(c, "mark", Started(apps[call[c].app]))
      <3>1. apps[call[c].app] \in S
        BY <1>1, <2>3 DEF RowsIn
      <3>2. Started(apps[call[c].app]) \in S
        BY <3>1 DEF Closed
      <3> QED BY <1>2, <1>4, <2>1, <2>3, <3>2
    <2> QED BY <1>6, <2>2, <2>3 DEF StartRead
  <1>7. CASE StartMark(c)
    <2>1. call[c].row \in S
      BY <1>5, <1>7 DEF StartMark
    <2> QED BY <1>4, <1>7, <2>1 DEF StartMark, RowsStep
  <1>8. CASE StartSpawn(c)
    <2>1. \A d \in Callers : call'[d].row = call[d].row
      BY <1>0, <1>8 DEF StartSpawn, StartTypeOK, Call
    <2> QED BY <1>0, <1>2, <1>8, <2>1 DEF StartSpawn, storeVars
  <1>9. CASE SpawnFails(c) \/ StartRefused(c)
    BY <1>2, <1>3, <1>9 DEF SpawnFails, StartRefused, storeVars
  <1>10. CASE StartRecord(c)
    <2>1. call[c].row \in S /\ UNCHANGED apps
      BY <1>5, <1>10 DEF StartRecord, InsertRun
    <2> QED BY <1>2, <1>4, <1>10, <2>1 DEF StartRecord
  <1>11. CASE StartCommit(c)
    <2>1. call[c].row \in S /\ call[c].child \in Pids
      BY <1>0, <1>5, <1>11 DEF StartCommit, CallsReady
    <2>2. Running(call[c].row, call[c].child) \in S
      BY <2>1 DEF Closed
    <2> QED BY <1>3, <1>11, <2>2 DEF StartCommit, RowsStep
  <1> QED BY <1>6, <1>7, <1>8, <1>9, <1>10, <1>11 DEF StartStep

\* The task saves what it has read, restarts counted below the limit only.
LEMMA SupervisorRows ==
  ASSUME Inv, NEW S, Closed(S), RowsIn(S), SupervisorStep
  PROVE  RowsStep(S)
  <1>0. TaskReady /\ SupervisorTypeOK /\ (sup.row \in App => sup.row \in S)
    BY NoneIsNoApp DEF Inv, TypeOK, RowsIn
  <1>1. CASE UNCHANGED apps
    BY <1>1 DEF RowsStep
  <1>2. CASE RestoreFail
    <2>1. InState(sup.row, "Failed") \in S
      BY <1>0, <1>2 DEF RestoreFail, At, TaskReady, AppState, Closed
    <2> QED BY <1>1, <1>2, <2>1 DEF RestoreFail, RowsStep, storeVars
  <1>3. CASE StopMark
    <2>1. InState(sup.row, "Stopping") \in S
      BY <1>0, <1>3 DEF StopMark, At, TaskReady, AppState, Closed
    <2> QED BY <1>1, <1>3, <2>1 DEF StopMark, RowsStep, storeVars
  <1>4. CASE StopSave
    <2>1. sup.row \in App /\ sup.code \in ExitCode \cup {None}
      BY <1>0, <1>4 DEF StopSave, At, TaskReady, SupervisorTypeOK, Task
    <2>2. Stopped(sup.row, sup.code) \in S /\ Forgotten(sup.row) \in S
      BY <1>0, <2>1 DEF Closed
    <2> QED BY <1>1, <1>4, <2>2 DEF StopSave, RowsStep, storeVars
  <1>5. CASE ExitSave
    <2>1. AfterExit(sup.row) \in S
      BY <1>0, <1>5 DEF ExitSave, At, TaskReady, Closed
    <2> QED BY <1>1, <1>5, <2>1 DEF ExitSave, RowsStep, storeVars
  <1> QED BY <1>1, <1>2, <1>3, <1>4, <1>5 DEF SupervisorStep, Work, Receive, Tick,
        StatementFails, Restore, NextApp, LoopEnds, StartCheck, StartDone, StartFailed,
        StopRead, Kill, CloseRun, ExitClose, RestartRead, HealthRead, ProbePasses, ProbeFails,
        ExitRead, CloseLatestRun, storeVars

\* The row it holds is one it has read, perhaps changed since.
LEMMA SupervisorHolds ==
  ASSUME Inv, NEW S, Closed(S), RowsIn(S), SupervisorStep
  PROVE  sup'.row \in S \cup {None} /\ sup'.todo \subseteq S
  <1>0. /\ StoreTypeOK /\ TaskReady /\ sup \in Task /\ sup.row \in S \cup {None}
        /\ sup.todo \subseteq S
        /\ \A n \in Names : apps[n] \in S \cup {None}
    BY DEF Inv, TypeOK, SupervisorTypeOK, RowsIn
  <1> DEFINE Holds == sup'.row \in S \cup {None} /\ sup'.todo \subseteq S
  <1>1. ASSUME sup'.row \in {sup.row, None}, sup'.todo \subseteq sup.todo PROVE Holds
    BY <1>0, <1>1
  <1>2. CASE Finish
    <2>1. sup'.row = None /\ sup'.todo \subseteq sup.todo
      BY <1>2 DEF Finish, Returns, IdleTask
    <2> QED BY <1>1, <2>1
  <1>3. CASE sup' = IdleTask
    BY <1>3 DEF IdleTask
  <1>4. CASE \E pc \in SupPc : Goto(pc)
    BY <1>0, <1>1, <1>4 DEF Goto, Task
  <1>5. CASE UNCHANGED sup
    BY <1>1, <1>5
  <1>6. CASE Unhealthy
    <2>1. CASE sup' = [sup EXCEPT !.pc = "restart", !.row = None]
      BY <1>0, <1>1, <2>1 DEF Task
    <2> QED BY <1>2, <1>6, <2>1 DEF Unhealthy
  <1>7. sup.app \in Names /\ Row # None => Row \in S
    BY <1>0 DEF Row
  <1>8. CASE Restore \/ Tick
    <2>1. GetByState("Running") \subseteq S
      BY <1>0 DEF GetByState, Stored
    <2> QED BY <1>0, <1>8, <2>1 DEF Restore, Tick, Task
  <1>9. CASE NextApp
    <2>1. PICK row \in sup.todo :
            IF sup.job = "boot"
              THEN sup' = [sup EXCEPT !.pc = "starting", !.app = row.name, !.row = row,
                                      !.todo = @ \ {row}]
              ELSE sup' = [sup EXCEPT !.pc = "health", !.app = row.name, !.todo = @ \ {row}]
      BY <1>9 DEF NextApp
    <2>2. sup \in Task /\ row \in S
      BY <1>0
    <2>3. sup'.row \in {row, sup.row} /\ sup'.todo \subseteq sup.todo
      BY <2>1, <2>2 DEF Task
    <2> QED BY <1>0, <2>2, <2>3
  <1>10. CASE StopRead
    <2>1. CASE Row # None
      <3>1. sup'.row = Row /\ sup'.todo = sup.todo /\ sup.app \in Names
        BY <1>0, <1>10, <2>1 DEF StopRead, At, TaskReady, Task
      <3> QED BY <1>0, <1>7, <2>1, <3>1
    <2> QED BY <1>2, <1>10, <2>1 DEF StopRead
  <1>11. CASE StopMark
    <2>1. CASE sup' = [sup EXCEPT !.pc = "kill", !.row = InState(sup.row, "Stopping")]
      <3>1. InState(sup.row, "Stopping") \in S
        BY <1>0, <1>11, NoneIsNoApp DEF StopMark, At, TaskReady, AppState, Closed
      <3> QED BY <1>0, <2>1, <3>1 DEF Task
    <2> QED BY <1>2, <1>11, <2>1 DEF StopMark
  <1>12. CASE HealthRead
    <2>1. CASE Checked(Row) /\ sup' = [sup EXCEPT !.pc = "probe", !.row = Row]
      <3>1. sup'.row = Row /\ sup'.todo = sup.todo /\ sup.app \in Names
        BY <1>0, <1>12, <2>1 DEF HealthRead, At, TaskReady, Task
      <3> QED BY <1>0, <1>7, <2>1, <3>1 DEF Checked
    <2> QED BY <1>2, <1>6, <1>12, <2>1 DEF HealthRead
  <1>13. CASE ExitRead
    <2>1. CASE Row # None
      <3>1. sup.app \in Names /\ sup.code \in ExitCode \cup {None}
        BY <1>0, <1>13 DEF ExitRead, At, TaskReady, Task
      <3>2. sup'.row = Exited(Row, sup.code) /\ sup'.todo = sup.todo
        BY <1>0, <1>13, <2>1 DEF ExitRead, Task
      <3>3. Exited(Row, sup.code) \in S
        BY <1>7, <2>1, <3>1 DEF Closed
      <3> QED BY <1>0, <3>2, <3>3
    <2> QED BY <1>2, <1>13, <2>1 DEF ExitRead
  <1>14. CASE Receive \/ Kill \/ RestartRead
    BY <1>0, <1>1, <1>2, <1>14 DEF Receive, Kill, RestartRead, Task
  <1>15. CASE StopSave
    <2>1. CASE sup' = AfterStop
      BY <1>0, <1>1, <1>2, <2>1 DEF AfterStop, Finish, Task
    <2> QED BY <1>2, <1>15, <2>1 DEF StopSave
  <1> QED BY <1>2, <1>3, <1>4, <1>5, <1>6, <1>8, <1>9, <1>10, <1>11, <1>12, <1>13, <1>14, <1>15
      DEF SupervisorStep, Work, StatementFails, LoopEnds, StartCheck, StartDone, StartFailed,
          RestoreFail, CloseRun, ExitClose, ExitSave, ProbePasses, ProbeFails, SupPc

\* It begins activations, which hold no row yet, and takes their outcome.
LEMMA SupervisorCallRows ==
  ASSUME Inv, NEW S, Closed(S), RowsIn(S), SupervisorStep
  PROVE  \A c \in Callers : call'[c].row \in S \cup {None}
  <1>0. StartTypeOK /\ \A c \in Callers : call[c].row \in S \cup {None}
    BY DEF Inv, TypeOK, RowsIn
  <1>1. CASE UNCHANGED call
    BY <1>0, <1>1
  <1>2. CASE \E n : CallStart(n)
    BY <1>0, <1>2 DEF CallStart, StartCall, IdleCall, StartTypeOK
  <1>3. CASE call' = [call EXCEPT ![Super] = IdleCall]
    BY <1>0, <1>3 DEF IdleCall, StartTypeOK
  <1>4. CASE Return(Super, "failed")
    BY <1>0, <1>4 DEF Return, Returned, StartTypeOK, Call
  <1> QED BY <1>1, <1>2, <1>3, <1>4 DEF SupervisorStep, Work, Receive, Tick, StatementFails,
        Restore, NextApp, LoopEnds, StartCheck, StartDone, StartFailed, RestoreFail, StopRead,
        StopMark, Kill, CloseRun, StopSave, RestartRead, HealthRead, ProbePasses, ProbeFails,
        ExitRead, ExitClose, ExitSave

------------------------------------------------------------------------------

\* A handler saves the row it has made or read, and deletes by id.
LEMMA RequestsRows ==
  ASSUME Inv, NEW S, Closed(S), RowsIn(S), NEW r \in Requests, Begin(r) \/ Proceed(r) \/ Abandon(r),
         CreateSave(r) => req[r].row \in S
  PROVE  RowsStep(S)
  <1>0. RequestsReady /\ (req[r].pc # "insert" /\ req[r].row \in App => req[r].row \in S)
    BY NoneIsNoApp DEF Inv, RowsIn
  <1>1. CASE UNCHANGED apps
    BY <1>1 DEF RowsStep
  <1>2. CASE \E pc \in {"insert", "deployed", "envSave"} : SaveRow(r, pc)
    <2>1. req[r].row \in S
      BY <1>0, <1>2 DEF CreateSave, SaveRow, ReqAt, RequestsReady
    <2> QED BY <1>1, <1>2, <2>1 DEF SaveRow, RowsStep, storeVars
  <1>3. CASE DeleteRow(r)
    BY <1>3 DEF RowsStep
  <1> QED BY <1>1, <1>2, <1>3
      DEF Begin, Proceed, CreateCheck, DeleteCheck, DeployCheck, EnvRead, StopCheck, RestartCheck,
          ApiStart, CreateSetup, CreateSave, DeleteFiles, DeleteHistory, DeleteRuns, DeployWrite,
          DeployBusy, DeploySave, EnvSave, Send, Abandon, storeVars

\* What it holds is new, or as the rows it has read.
LEMMA RequestsHold ==
  ASSUME Inv, NEW S, Closed(S), RowsIn(S), NEW r \in Requests, Begin(r) \/ Proceed(r) \/ Abandon(r)
  PROVE  \A s \in Requests : req'[s].pc # "insert" => req'[s].row \in S \cup {None}
  <1> DEFINE Hold == \A s \in Requests : req'[s].pc # "insert" => req'[s].row \in S \cup {None}
  <1>0. /\ StoreTypeOK /\ ApiTypeOK /\ RequestsReady /\ req[r] \in Request
        /\ \A s \in Requests : req[s].pc # "insert" => req[s].row \in S \cup {None}
        /\ \A n \in Stored : apps[n] \in S
    BY DEF Inv, TypeOK, ApiTypeOK, RowsIn, Stored, StoreTypeOK
  <1>1. ASSUME NEW frame \in Request, frame.row \in S \cup {None}, Step(r, frame)
        PROVE  Hold
    BY <1>0, <1>1 DEF Step, ApiTypeOK
  <1>2. CASE UNCHANGED req
    BY <1>0, <1>2
  <1>3. ASSUME NEW frame, frame.row = None, Step(r, frame)
        PROVE  Hold
    BY <1>0, <1>3 DEF Step, ApiTypeOK
  <1>4. CASE Respond(r)
    BY <1>0, <1>4 DEF Respond, Step, IdleRequest, ApiTypeOK
  <1>5. CASE CreateCheck(r) \/ DeleteCheck(r) \/ StopCheck(r) \/ RestartCheck(r)
    BY <1>0, <1>5 DEF CreateCheck, DeleteCheck, StopCheck, RestartCheck, Step, IdleRequest,
       ApiTypeOK
  <1>6. CASE CreateSetup(r)
    <2>1. PICK port \in Ports :
            Step(r, [req[r] EXCEPT !.pc = "insert", !.id = None, !.app = None,
                                   !.row = NewApp(req[r].id, req[r].app, port)])
      BY <1>6 DEF CreateSetup
    <2>2. req'[r].pc = "insert" /\ \A s \in Requests \ {r} : req'[s] = req[s]
      BY <1>0, <2>1 DEF Step, ApiTypeOK, Request
    <2> QED BY <1>0, <2>2
  <1>7. CASE DeleteFiles(r) \/ DeleteHistory(r)
    <2>1. req'[r].row = req[r].row /\ req[r].pc # "insert" /\ \A s \in Requests \ {r} : req'[s] = req[s]
      BY <1>0, <1>7 DEF DeleteFiles, DeleteHistory, ReqAt, Step, ApiTypeOK, Request
    <2> QED BY <1>0, <2>1
  <1>8. CASE DeployCheck(r)
    <2>1. PICK n \in Stored, hash \in Hashes :
            Step(r, [IdleRequest EXCEPT !.pc = "write", !.row = apps[n], !.hash = hash])
      BY <1>8 DEF DeployCheck
    <2>2. req'[r].row = apps[n] /\ \A s \in Requests \ {r} : req'[s] = req[s]
      BY <1>0, <2>1 DEF Step, ApiTypeOK, IdleRequest
    <2> QED BY <1>0, <2>2
  <1>9. CASE DeployWrite(r)
    <2>1. req[r].row \in S /\ req[r].hash \in Hashes
      BY <1>0, <1>9, NoneIsNoApp DEF DeployWrite, ReqAt, RequestsReady
    <2>2. Deployed(req[r].row, req[r].hash) \in S
      BY <2>1 DEF Closed
    <2>3. Step(r, [req[r] EXCEPT !.pc = "deployed", !.hash = None,
                                 !.row = Deployed(req[r].row, req[r].hash)])
      BY <1>9 DEF DeployWrite
    <2>4. /\ req'[r].row = Deployed(req[r].row, req[r].hash)
          /\ \A s \in Requests \ {r} : req'[s] = req[s]
      BY <1>0, <2>3 DEF Step, ApiTypeOK, Request
    <2> QED BY <1>0, <2>2, <2>4
  <1>10. CASE EnvRead(r)
    <2>1. PICK n \in Stored, port \in Overrides \cup {None} :
            Step(r, [IdleRequest EXCEPT !.pc = "envSave", !.row = WithEnv(apps[n], port)])
      BY <1>10 DEF EnvRead
    <2> DEFINE new == WithEnv(apps[n], port)
    <2>2. new \in S
      BY <1>0 DEF Closed
    <2>3. req'[r].row = new /\ \A s \in Requests \ {r} : req'[s] = req[s]
      BY <1>0, <2>1 DEF Step, ApiTypeOK, IdleRequest
    <2> QED BY <1>0, <2>2, <2>3
  <1> QED BY <1>2, <1>4, <1>5, <1>6, <1>7, <1>8, <1>9, <1>10
      DEF Begin, Proceed, ApiStart, CreateSave, DeleteRow, DeployBusy, DeploySave, EnvSave,
          SaveRow, Send, Abandon

\* Their activations begin without a row.
LEMMA RequestsCallRows ==
  ASSUME Inv, NEW S, Closed(S), RowsIn(S), NEW r \in Requests, Begin(r) \/ Proceed(r) \/ Abandon(r)
  PROVE  \A c \in Callers : call'[c].row \in S \cup {None}
  <1>0. StartTypeOK /\ \A c \in Callers : call[c].row \in S \cup {None}
    BY DEF Inv, TypeOK, RowsIn
  <1>1. CASE UNCHANGED call
    BY <1>0, <1>1
  <1>2. CASE ApiStart(r) \/ Abandon(r)
    <2>1. IdleCall.row = None /\ \A n \in Names : StartCall(n).row = None
      BY DEF IdleCall, StartCall
    <2>2. \A c \in Callers : call'[c].row \in {call[c].row, None}
      BY <1>0, <1>2, <2>1 DEF ApiStart, Abandon, StartTypeOK, Stored
    <2> QED BY <1>0, <2>2
  <1> QED BY <1>1, <1>2
      DEF Begin, Proceed, CreateCheck, DeleteCheck, DeployCheck, EnvRead, StopCheck,
          RestartCheck, CreateSetup, CreateSave, DeleteFiles, DeleteHistory, DeleteRow,
          DeployWrite, DeployBusy, DeploySave, EnvSave, SaveRow, Send

------------------------------------------------------------------------------

\* Every step deletes an app or saves a row of the set, and keeps the copies in
\* it, if the app that it inserts is in it.
LEMMA NextKeepsRows ==
  ASSUME Inv, NEW S, Closed(S), RowsIn(S), [Next]_vars,
         \A r \in Requests : CreateSave(r) => req[r].row \in S
  PROVE  RowsStep(S) /\ RowsIn(S)'
  <1>0. StoreTypeOK /\ \A n \in Names : apps[n] \in S \cup {None}
    BY DEF Inv, TypeOK, RowsIn
  <1>1. ASSUME UNCHANGED storeVars PROVE RowsStep(S)
    BY <1>1 DEF RowsStep, storeVars
  <1>2. ASSUME RowsStep(S), \A c \in Callers : call'[c].row \in S \cup {None},
               \A r \in Requests : req'[r].pc # "insert" => req'[r].row \in S \cup {None},
               sup'.row \in S \cup {None}, sup'.todo \subseteq S
        PROVE  RowsStep(S) /\ RowsIn(S)'
    <2>1. \A n \in Names : apps'[n] \in S \cup {None}
      BY <1>0, <1>2, RowsStepKeepsRows
    <2> QED BY <1>2, <2>1 DEF RowsIn
  <1>3. ASSUME UNCHANGED sup PROVE sup'.row \in S \cup {None} /\ sup'.todo \subseteq S
    BY <1>3 DEF RowsIn
  <1>4. ASSUME UNCHANGED req
        PROVE  \A r \in Requests : req'[r].pc # "insert" => req'[r].row \in S \cup {None}
    BY <1>4 DEF RowsIn
  <1>5. ASSUME UNCHANGED call PROVE \A c \in Callers : call'[c].row \in S \cup {None}
    BY <1>5 DEF RowsIn
  <1>6. CASE SupervisorNext
    <2>1. SupervisorStep /\ UNCHANGED req
      BY <1>6 DEF SupervisorNext, SupervisorStep
    <2> QED BY <1>2, <1>4, <2>1, SupervisorRows, SupervisorHolds, SupervisorCallRows
  <1>7. CASE \E c \in Callers : CallNext(c)
    <2>1. PICK c \in Callers : StartStep(c) /\ UNCHANGED <<sup, req>>
      BY <1>7 DEF CallNext, supVars
    <2> QED BY <1>2, <1>3, <1>4, <2>1, StartStepRows
  <1>8. CASE \E r \in Requests : RequestNext(r)
    <2>1. PICK r \in Requests : Begin(r) \/ Proceed(r) \/ Abandon(r)
      BY <1>8 DEF RequestNext
    <2>2. UNCHANGED sup
      BY <2>1, RequestsKeepSupervisor DEF Inv, TypeOK
    <2> QED BY <1>2, <1>3, <2>1, <2>2, RequestsRows, RequestsHold, RequestsCallRows
  <1>9. CASE (\E p \in Pids : ProcessNext(p)) \/ LibrarySend \/ UNCHANGED vars
    <2>1. UNCHANGED <<storeVars, call, sup, req>>
      BY <1>9 DEF ProcessNext, LibrarySend, vars, supVars
    <2> QED BY <1>1, <1>2, <1>3, <1>4, <1>5, <2>1
  <1>10. CASE Crash
    <2>1. /\ UNCHANGED storeVars
          /\ call' = [c \in Callers |-> IdleCall]
          /\ sup' = BootTask
          /\ req' = [r \in Requests |-> IdleRequest]
      BY <1>10 DEF Crash
    <2>2. \A c \in Callers : call'[c].row = None
      BY <2>1 DEF IdleCall
    <2>3. \A r \in Requests : req'[r].row = None
      BY <2>1 DEF IdleRequest
    <2>4. sup'.row = None /\ sup'.todo = {}
      BY <2>1 DEF BootTask, IdleTask
    <2> QED BY <1>1, <1>2, <2>1, <2>2, <2>3, <2>4
  <1> QED BY <1>6, <1>7, <1>8, <1>9, <1>10 DEF Next

\* So nothing but a row is ever saved.
LEMMA SavesRows ==
  ASSUME Inv, [Next]_vars
  PROVE  RowsStep(App)
  <1>1. Closed(App)
    BY IdentityClosed
  <1>2. RowsIn(App)
    BY DEF Inv, TypeOK, RowsIn, StoreTypeOK, StartTypeOK, Call, ApiTypeOK, Request,
       SupervisorTypeOK, Task
  <1>3. \A r \in Requests : CreateSave(r) => req[r].row \in App
    BY DEF Inv, RequestsReady, CreateSave, SaveRow, ReqAt
  <1> QED BY <1>1, <1>2, <1>3, NextKeepsRows

------------------------------------------------------------------------------
\* Apps that are being created.

\* r has drawn an id for an app that is not stored yet.
Creating(r) == req[r].pc \in {"setup", "insert"}

\* An id is drawn by create's first step, and the row made by its second.
LEMMA CreationsStep ==
  ASSUME ApiTypeOK, [Next]_vars, NEW r \in Requests, Creating(r)'
  PROVE  CreateCheck(r) \/ CreateSetup(r) \/ UNCHANGED req[r]
  <1>1. IdleRequest.pc = "idle" /\ req[r] \in Request
    BY DEF IdleRequest, ApiTypeOK
  <1>2. CASE UNCHANGED req
    BY <1>2
  <1>3. CASE Crash
    BY <1>1, <1>3 DEF Crash, Creating
  <1>4. CASE \E s \in Requests : RequestNext(s)
    <2>1. PICK s \in Requests : RequestNext(s)
      BY <1>4
    <2>2. CASE s # r
      <3>1. \A frame : Step(s, frame) => UNCHANGED req[r]
        BY <2>2 DEF Step, ApiTypeOK
      <3> QED BY <2>1, <3>1 DEF RequestNext, Begin, Proceed, CreateCheck, DeleteCheck, DeployCheck,
           EnvRead, StopCheck, RestartCheck, ApiStart, CreateSetup, CreateSave, DeleteFiles,
           DeleteHistory, DeleteRow, DeployWrite, DeployBusy, DeploySave, EnvSave, SaveRow, Send,
           Abandon, Respond
    <2>3. CASE s = r
      <3>1. \A frame : Step(r, frame) => req'[r] = frame
        BY DEF Step, ApiTypeOK
      <3>2. ~Respond(r)
        BY <1>1, <3>1 DEF Respond, Creating
      <3>3. ~DeleteCheck(r) /\ ~DeployCheck(r) /\ ~EnvRead(r) /\ ~StopCheck(r) /\ ~RestartCheck(r)
        BY <3>1 DEF DeleteCheck, DeployCheck, EnvRead, StopCheck, RestartCheck, IdleRequest, Creating
      <3>4. ~DeleteFiles(r) /\ ~DeleteHistory(r) /\ ~DeployWrite(r)
        BY <1>1, <3>1 DEF DeleteFiles, DeleteHistory, DeployWrite, Request, Creating
      <3> QED BY <2>1, <2>3, <3>2, <3>3, <3>4 DEF RequestNext, Begin, Proceed, ApiStart,
            CreateSave, DeleteRow, DeployBusy, DeploySave, EnvSave, SaveRow, Send, Abandon
    <2> QED BY <2>2, <2>3
  <1> QED BY <1>2, <1>3, <1>4 DEF Next, SupervisorNext, CallNext, ProcessNext, LibrarySend, vars

------------------------------------------------------------------------------
\* Whose row a row is. An id is given to one app and to no other one, ever: an
\* app that is created under the name of a deleted one has an id of its own.

\* The id that r has drawn.
Promised(r) == IF req[r].pc = "setup" THEN req[r].id ELSE req[r].row.id

\* The rows of the apps that owner gives the ids to.
OwnedBy(owner) == {row \in App : owner[row.id] = row.name}

\* Every row in the program is of the app that its id was given to; an id that
\* create holds is nobody else's yet.
IdsOwned(owner) ==
  /\ RowsIn(OwnedBy(owner))
  /\ \A id \in Ids : id > issued => owner[id] = None
  /\ \A r \in Requests : Creating(r) =>
       /\ Promised(r) <= issued
       /\ owner[Promised(r)] = None
       /\ \A s \in Requests \ {r} : Creating(s) => Promised(s) # Promised(r)

Owners == [Ids -> Names \cup {None}]

IdInv == \E owner \in Owners : IdsOwned(owner)

LEMMA RowsStayOwned ==
  ASSUME NEW owner
  PROVE  Closed(OwnedBy(owner))
  BY IdentityClosed DEF OwnedBy

\* Ids are drawn by create alone.
LEMMA IssuedStep ==
  ASSUME [Next]_vars
  PROVE  UNCHANGED issued \/ \E r \in Requests : CreateCheck(r)
  <1>1. CASE SupervisorNext
    BY <1>1 DEF SupervisorNext, Work, Receive, Tick, StatementFails, Restore, NextApp, LoopEnds,
       StartCheck, StartDone, StartFailed, RestoreFail, StopRead, StopMark, Kill, CloseRun,
       StopSave, RestartRead, HealthRead, ProbePasses, ProbeFails, ExitRead, ExitClose, ExitSave,
       Save, CloseLatestRun, storeVars
  <1>2. CASE \E c \in Callers : CallNext(c)
    BY <1>2 DEF CallNext, StartStep, StartRead, StartMark, StartSpawn, SpawnFails, StartRecord,
       StartCommit, StartRefused, Save, InsertRun, storeVars
  <1>3. CASE \E r \in Requests : RequestNext(r)
    BY <1>3 DEF RequestNext, Begin, Proceed, DeleteCheck, DeployCheck, EnvRead, StopCheck,
       RestartCheck, ApiStart, CreateSetup, CreateSave, DeleteFiles, DeleteHistory, DeleteRow,
       DeleteRuns, DeleteApp, DeployWrite, DeployBusy, DeploySave, EnvSave, SaveRow, Send,
       Abandon, Save, storeVars
  <1> QED BY <1>1, <1>2, <1>3 DEF Next, ProcessNext, LibrarySend, Crash, vars, storeVars

LEMMA CreateDraws ==
  ASSUME Inv, NEW r \in Requests, CreateCheck(r)
  PROVE  /\ req[r].pc = "idle"
         /\ issued' = issued + 1 /\ issued + 1 \in Ids
         /\ \A s \in Requests \ {r} : req'[s] = req[s]
         /\ req'[r].pc = "setup" /\ req'[r].id = issued + 1
  <1>0. ApiTypeOK /\ issued \in Nat /\ MaxIds \in Nat
    BY AppModelAssumption DEF Inv, TypeOK, StoreTypeOK
  <1>1. issued' = issued + 1 /\ issued < MaxIds /\ req[r] = IdleRequest
    BY DEF CreateCheck, Free
  <1>2. PICK n \in Names :
          Step(r, [IdleRequest EXCEPT !.pc = "setup", !.app = n, !.id = issued + 1])
    BY DEF CreateCheck
  <1>3. \A s \in Requests \ {r} : req'[s] = req[s]
    BY <1>0, <1>2 DEF Step, ApiTypeOK
  <1>4. req'[r].pc = "setup" /\ req'[r].id = issued + 1
    BY <1>0, <1>2 DEF Step, ApiTypeOK, IdleRequest
  <1>5. req[r].pc = "idle"
    BY <1>1 DEF IdleRequest
  <1>6. issued + 1 \in Ids
    BY <1>0, <1>1 DEF Ids
  <1> QED BY <1>1, <1>3, <1>4, <1>5, <1>6

\* What create holds after a step: an id drawn just now, or the one it had.
LEMMA PromiseKept ==
  ASSUME Inv, [Next]_vars, NEW r \in Requests, Creating(r)'
  PROVE  \/ CreateCheck(r) /\ Promised(r)' = issued + 1
         \/ Creating(r) /\ Promised(r)' = Promised(r) /\ ~CreateCheck(r) /\ ~CreateSave(r)
  <1>0. ApiTypeOK /\ req[r] \in Request
    BY DEF Inv, TypeOK, ApiTypeOK
  <1>1. CreateCheck(r) \/ CreateSetup(r) \/ UNCHANGED req[r]
    BY <1>0, CreationsStep
  <1>2. CASE CreateCheck(r)
    BY <1>2, CreateDraws DEF Promised
  <1>3. CASE CreateSetup(r)
    <2>1. PICK port \in Ports :
            Step(r, [req[r] EXCEPT !.pc = "insert", !.id = None, !.app = None,
                                   !.row = NewApp(req[r].id, req[r].app, port)])
      BY <1>3 DEF CreateSetup
    <2>2. req'[r].pc = "insert" /\ req'[r].row.id = req[r].id
      BY <1>0, <2>1 DEF Step, ApiTypeOK, Request, NewApp
    <2>3. req[r].pc = "setup"
      BY <1>3 DEF CreateSetup, ReqAt
    <2>4. ~CreateCheck(r) /\ ~CreateSave(r)
      BY <2>3, CreateDraws DEF CreateSave, SaveRow, ReqAt
    <2> QED BY <2>2, <2>3, <2>4 DEF Promised, Creating
  <1>4. CASE UNCHANGED req[r]
    <2>1. req[r].pc \in {"setup", "insert"} /\ req[r].pc # "idle"
      BY <1>4 DEF Creating
    <2>2. ~CreateCheck(r)
      BY <2>1, CreateDraws
    <2>3. ~CreateSave(r)
      BY <1>0, <1>4, <2>1 DEF CreateSave, SaveRow, ReqAt, Respond, Step, IdleRequest, ApiTypeOK
    <2> QED BY <1>4, <2>1, <2>2, <2>3 DEF Creating, Promised
  <1> QED BY <1>1, <1>2, <1>3, <1>4

\* A step gives at most one id to an app: that of the row that create inserts.
LEMMA NextKeepsOwners ==
  ASSUME Inv, NEW owner \in Owners, IdsOwned(owner), [Next]_vars
  PROVE  \E next \in Owners : IdsOwned(next)'
  <1>0. StoreTypeOK /\ ApiTypeOK /\ RequestsReady /\ issued \in Nat
    BY AppModelAssumption DEF Inv, TypeOK, StoreTypeOK
  <1>1. ASSUME NEW r \in Requests, CreateSave(r)
        PROVE  /\ req[r].row \in App /\ Creating(r) /\ Promised(r) = req[r].row.id
               /\ ~Creating(r)' /\ UNCHANGED issued
               /\ \A s \in Requests \ {r} : req'[s] = req[s]
    BY <1>0, <1>1 DEF CreateSave, SaveRow, ReqAt, RequestsReady, Creating, Promised, Respond, Step,
       IdleRequest, ApiTypeOK, Save, storeVars
  <1>2. CASE \E r \in Requests : CreateSave(r)
    <2>1. PICK r \in Requests : CreateSave(r)
      BY <1>2
    <2>2. /\ req[r].row.id \in Ids /\ req[r].row.name \in Names
          /\ owner[req[r].row.id] = None /\ req[r].row.id <= issued
      BY <1>1, <2>1 DEF IdsOwned, App
    <2>12. PICK id \in Ids, n \in Names : id = req[r].row.id /\ n = req[r].row.name
      BY <2>2
    <2> DEFINE next == [owner EXCEPT ![id] = n]
    <2>3. next \in Owners
      BY DEF Owners
    <2>4. OwnedBy(owner) \subseteq OwnedBy(next) /\ req[r].row \in OwnedBy(next)
      BY <1>1, <2>1, <2>2, <2>12, AppModelAssumption DEF OwnedBy, Owners, App
    <2>5. RowsIn(OwnedBy(next))
      BY <2>4 DEF IdsOwned, RowsIn
    <2>6. ASSUME NEW s \in Requests, CreateSave(s) PROVE s = r
      <3>1. Creating(s) /\ ~Creating(s)'
        BY <1>1, <2>6
      <3>2. s # r => req'[s] = req[s]
        BY <1>1, <2>1
      <3> QED BY <3>1, <3>2 DEF Creating
    <2>7. RowsIn(OwnedBy(next))'
      <3>1. \A s \in Requests : CreateSave(s) => req[s].row \in OwnedBy(next)
        BY <2>4, <2>6
      <3>2. Closed(OwnedBy(next))
        BY RowsStayOwned
      <3> HIDE DEF next
      <3> QED BY <2>5, <3>1, <3>2, NextKeepsRows
    <2>8. \A other \in Ids : other > issued' => next[other] = None
      <3>1. issued' = issued /\ \A other \in Ids \ {id} : next[other] = owner[other]
        BY <1>1, <2>1 DEF Owners
      <3>2. \A other \in Ids : other > issued => other # id /\ owner[other] = None
        BY <1>0, <2>2, <2>12 DEF IdsOwned, Ids
      <3> QED BY <3>1, <3>2
    <2>9. ASSUME NEW s \in Requests, Creating(s)'
          PROVE  /\ s # r /\ Creating(s) /\ Promised(s)' = Promised(s)
                 /\ Promised(s) # id
      BY <1>1, <2>1, <2>9, <2>12 DEF Creating, Promised, IdsOwned
    <2>10. \A s \in Requests : Creating(s)' =>
             /\ Promised(s)' <= issued'
             /\ next[Promised(s)'] = None
             /\ \A t \in Requests \ {s} : Creating(t)' => Promised(t)' # Promised(s)'
      <3> SUFFICES ASSUME NEW s \in Requests, Creating(s)'
                   PROVE  /\ Promised(s) <= issued
                          /\ next[Promised(s)] = None
                          /\ \A t \in Requests \ {s} : Creating(t)' => Promised(t) # Promised(s)
        BY <1>1, <2>1, <2>9
      <3>1. /\ Promised(s) <= issued /\ owner[Promised(s)] = None /\ Promised(s) # id
            /\ \A t \in Requests \ {s} : Creating(t) => Promised(t) # Promised(s)
        BY <2>9 DEF IdsOwned
      <3>2. Promised(s) \in Ids
        BY <1>0, <2>9, <1>1 DEF Creating, Promised, RequestsReady, App
      <3> QED BY <2>9, <3>1, <3>2 DEF Owners
    <2>11. IdsOwned(next)'
      <3> HIDE DEF next
      <3> QED BY <2>7, <2>8, <2>10 DEF IdsOwned
    <2> HIDE DEF next
    <2> QED BY <2>3, <2>11
  <1>3. CASE ~ \E r \in Requests : CreateSave(r)
    <2>0. \A r \in Requests : Creating(r) => Promised(r) \in Nat
      <3>1. \A r \in Requests : Creating(r) => Promised(r) \in Ids
        BY <1>0 DEF Creating, Promised, RequestsReady, App
      <3> QED BY <3>1, AppModelAssumption DEF Ids
    <2>1. RowsIn(OwnedBy(owner))'
      BY <1>3, RowsStayOwned, NextKeepsRows DEF IdsOwned
    <2>2. issued' \in {issued, issued + 1} /\ issued <= issued'
      BY <1>0, IssuedStep, CreateDraws
    <2>3. \A id \in Ids : id > issued' => owner[id] = None
      <3>1. \A id \in Ids : id > issued' => id > issued
        BY <1>0, <2>2, AppModelAssumption DEF Ids
      <3> QED BY <3>1 DEF IdsOwned
    <2>4. ASSUME NEW r \in Requests, CreateCheck(r)
          PROVE  issued' = issued + 1 /\ issued + 1 \in Ids
                 /\ \A s \in Requests \ {r} : req'[s] = req[s] /\ ~CreateCheck(s)
      BY <2>4, CreateDraws
    <2>5. ASSUME NEW r \in Requests, Creating(r)'
          PROVE  /\ Promised(r)' <= issued'
                 /\ owner[Promised(r)'] = None
                 /\ \A s \in Requests \ {r} : Creating(s)' => Promised(s)' # Promised(r)'
      <3>1. CASE CreateCheck(r)
        <4>1. Promised(r)' = issued + 1
          BY <2>5, <3>1, PromiseKept
        <4>2. \A s \in Requests \ {r} : Creating(s)' => Promised(s)' <= issued
          BY <2>4, <3>1, PromiseKept DEF IdsOwned
        <4>3. \A s \in Requests \ {r} : Creating(s)' => Promised(s)' \in Nat
          <5> SUFFICES ASSUME NEW s \in Requests \ {r}, Creating(s)' PROVE Promised(s)' \in Nat
            OBVIOUS
          <5>1. Creating(s) /\ Promised(s)' = Promised(s)
            BY <2>4, <3>1, PromiseKept
          <5> QED BY <2>0, <5>1
        <4> QED BY <1>0, <2>4, <3>1, <4>1, <4>2, <4>3 DEF IdsOwned
      <3>2. CASE ~CreateCheck(r)
        <4>1. Creating(r) /\ Promised(r)' = Promised(r)
          BY <2>5, <3>2, PromiseKept
        <4>2. Promised(r) \in Nat /\ Promised(r) <= issued /\ owner[Promised(r)] = None
          BY <2>0, <4>1 DEF IdsOwned
        <4>3. ASSUME NEW s \in Requests \ {r}, Creating(s)' PROVE Promised(s)' # Promised(r)
          <5>1. CASE CreateCheck(s)
            BY <1>0, <4>2, <4>3, <5>1, PromiseKept
          <5>2. CASE ~CreateCheck(s)
            BY <4>1, <4>3, <5>2, PromiseKept DEF IdsOwned
          <5> QED BY <5>1, <5>2
        <4> QED BY <1>0, <2>2, <4>1, <4>2, <4>3
      <3> QED BY <3>1, <3>2
    <2>6. IdsOwned(owner)'
      BY <2>1, <2>3, <2>5 DEF IdsOwned
    <2> QED BY <2>6
  <1> QED BY <1>2, <1>3

\* An installed app is the owner of the id it was given.
LEMMA InitOwners ==
  ASSUME Init
  PROVE  IdInv
  <1>1. PICK num \in Numbering, bin \in [Installed -> Hashes],
             state \in [Installed -> InitStates], health \in [Installed -> InitHealth],
             policy \in [Installed -> InitPolicies], env \in [Installed -> Overrides \cup {None}] :
          apps = [n \in Names |->
                    IF n \in Installed
                      THEN InitialRow(n, num[n], bin[n], state[n], health[n], policy[n], env[n])
                      ELSE None]
    BY DEF Init
  <1> DEFINE owner == [id \in Ids |-> IF \E n \in Installed : num[n] = id
                                        THEN CHOOSE n \in Installed : num[n] = id ELSE None]
  <1>2. owner \in Owners
    BY ServerAssumption DEF Owners
  <1>3. ASSUME NEW n \in Installed
        PROVE  num[n] \in Ids /\ owner[num[n]] = n
    <2>1. num[n] \in 1 .. Cardinality(Installed) /\ Cardinality(Installed) <= MaxIds
      BY ServerAssumption DEF Numbering
    <2>2. num[n] \in Ids
      BY <2>1, ServerAssumption, AppModelAssumption DEF Ids
    <2>3. \A m \in Installed : num[m] = num[n] => m = n
      BY DEF Numbering
    <2> QED BY <2>2, <2>3
  <1>4. \A n \in Names : apps[n] \in OwnedBy(owner) \cup {None}
    <2>1. ASSUME NEW n \in Installed
          PROVE  /\ InitialRow(n, num[n], bin[n], state[n], health[n], policy[n], env[n]).id = num[n]
                 /\ InitialRow(n, num[n], bin[n], state[n], health[n], policy[n], env[n]).name = n
      BY DEF InitialRow, NewApp
    <2>2. \A n \in Names : apps[n] \in App \cup {None}
      BY InitInv DEF Inv, TypeOK, StoreTypeOK
    <2>3. ASSUME NEW n \in Installed PROVE apps[n] \in OwnedBy(owner) \cup {None}
      <3>1. apps[n] = InitialRow(n, num[n], bin[n], state[n], health[n], policy[n], env[n])
        BY <1>1, ServerAssumption
      <3>2. apps[n].id = num[n] /\ apps[n].name = n
        BY <2>1, <3>1
      <3> HIDE DEF owner
      <3> QED BY <1>3, <2>2, <3>2, ServerAssumption DEF OwnedBy
    <2> QED BY <1>1, <2>3
  <1>5. \A id \in Ids : id > issued => owner[id] = None
    <2>1. issued = Cardinality(Installed)
      BY DEF Init
    <2>2. \A id \in Ids, n \in Installed : num[n] = id => ~(id > issued)
      BY <2>1, ServerAssumption, AppModelAssumption DEF Numbering, Ids
    <2> QED BY <2>2
  <1>6. \A c \in Callers : call[c].row = None
    BY DEF Init, IdleCall
  <1>7. \A r \in Requests : req[r].row = None /\ req[r].pc = "idle"
    BY DEF Init, IdleRequest
  <1>8. sup.row = None /\ sup.todo = {}
    BY DEF Init, BootTask, IdleTask
  <1>9. IdsOwned(owner)
    <2> HIDE DEF owner
    <2> QED BY <1>4, <1>5, <1>6, <1>7, <1>8 DEF IdsOwned, RowsIn, Creating
  <1> HIDE DEF owner
  <1> QED BY <1>2, <1>9 DEF IdInv

LEMMA NextKeepsIds ==
  ASSUME Inv, IdInv, [Next]_vars
  PROVE  IdInv'
  BY NextKeepsOwners DEF IdInv, Owners

LEMMA IdInvariance == Spec => []IdInv
  BY InitOwners, NextKeepsIds, Invariance, PTL DEF Spec

\* The rows that have the id of no row stored under another name.
HomeRows == {row \in App : \A n \in Stored : apps[n].id = row.id => n = row.name}

\* Whatever row somebody holds is one of them, ...
LEMMA CopiesAtHome ==
  ASSUME Inv, IdInv
  PROVE  RowsIn(HomeRows)
  <1>1. PICK owner \in Owners : IdsOwned(owner)
    BY DEF IdInv
  <1>2. OwnedBy(owner) \subseteq HomeRows
    <2> SUFFICES ASSUME NEW row \in App, owner[row.id] = row.name,
                        NEW n \in Stored, apps[n].id = row.id
                 PROVE  n = row.name
      BY DEF OwnedBy, HomeRows
    <2>1. apps[n] \in OwnedBy(owner) /\ apps[n].name = n
      BY <1>1 DEF IdsOwned, RowsIn, Stored, Inv, Rooted
    <2> QED BY <2>1 DEF OwnedBy
  <1> QED BY <1>1, <1>2 DEF IdsOwned, RowsIn

\* ... and so is one that create is about to insert.
LEMMA NewRowsAtHome ==
  ASSUME Inv, IdInv, NEW r \in Requests, req[r].pc = "insert"
  PROVE  req[r].row \in HomeRows /\ ~HasId(req[r].row.id)
  <1>1. PICK owner \in Owners : IdsOwned(owner)
    BY DEF IdInv
  <1>2. owner[req[r].row.id] = None /\ req[r].row \in App
    BY <1>1 DEF IdsOwned, Creating, Promised, Inv, RequestsReady
  <1>3. \A n \in Stored : apps[n].id # req[r].row.id
    <2> SUFFICES ASSUME NEW n \in Stored PROVE owner[apps[n].id] # None
      BY <1>2
    <2>1. apps[n] \in OwnedBy(owner) /\ apps[n].name = n /\ n \in Names
      BY <1>1 DEF IdsOwned, RowsIn, Stored, Inv, Rooted
    <2> QED BY <2>1, AppModelAssumption DEF OwnedBy
  <1> QED BY <1>2, <1>3 DEF HomeRows, HasId

LEMMA SavesAtHome ==
  ASSUME Inv, IdInv, [Next]_vars
  PROVE  RowsStep(HomeRows)
  <1>1. PICK owner \in Owners : IdsOwned(owner)
    BY DEF IdInv
  <1>2. CASE \E r \in Requests : CreateSave(r)
    <2>1. PICK r \in Requests : CreateSave(r)
      BY <1>2
    <2>2. Save(req[r].row) \/ UNCHANGED apps
      BY <2>1 DEF CreateSave, SaveRow, storeVars
    <2>3. req[r].row \in HomeRows
      BY <2>1, NewRowsAtHome DEF CreateSave, SaveRow, ReqAt
    <2> QED BY <2>2, <2>3 DEF RowsStep
  <1>3. CASE ~ \E r \in Requests : CreateSave(r)
    <2>1. RowsStep(OwnedBy(owner))
      BY <1>1, <1>3, RowsStayOwned, NextKeepsRows DEF IdsOwned
    <2>2. \A row \in OwnedBy(owner) : row \in HomeRows
      <3> SUFFICES ASSUME NEW row \in App, owner[row.id] = row.name,
                          NEW n \in Stored, apps[n].id = row.id
                   PROVE  n = row.name
        BY DEF OwnedBy, HomeRows
      <3>1. apps[n] \in OwnedBy(owner) /\ apps[n].name = n
        BY <1>1 DEF IdsOwned, RowsIn, Stored, Inv, Rooted
      <3> QED BY <3>1 DEF OwnedBy
    <2> QED BY <2>1, <2>2 DEF RowsStep
  <1> QED BY <1>2, <1>3

\* An id is of one app for ever: whatever is saved, however old the copy, its id
\* is that of no row stored under another name. The upsert of db::apps::save goes
\* by the id and would overwrite such a row; that there is none is why Save may
\* write under the name.
THEOREM IdsStayWithNames == Spec => SavesStayHome
  <1> DEFINE Home == \A n \in Names : apps'[n] # apps[n] /\ apps'[n] # None =>
                       \A m \in Names \ {n} : apps[m] # None => apps[m].id # apps'[n].id
  <1>1. Inv /\ IdInv /\ [Next]_vars => Home
    <2> SUFFICES ASSUME Inv, IdInv, [Next]_vars PROVE Home
      OBVIOUS
    <2>1. RowsStep(HomeRows) /\ StoreTypeOK
      BY SavesAtHome DEF Inv, TypeOK
    <2>2. CASE UNCHANGED apps \/ \E r \in Requests : DeleteRow(r)
      BY <2>2 DEF DeleteRow, DeleteApp, storeVars
    <2>3. CASE \E row \in HomeRows : Save(row)
      <3>1. PICK row \in HomeRows : Save(row)
        BY <2>3
      <3>2. \A n \in Names : apps'[n] # apps[n] => n = row.name /\ apps'[n] = row
        BY <2>1, <3>1 DEF Save, StoreTypeOK
      <3>3. \A m \in Names : apps[m] # None /\ apps[m].id = row.id => m = row.name
        BY DEF HomeRows, Stored
      <3> QED BY <3>2, <3>3
    <2> QED BY <2>1, <2>2, <2>3 DEF RowsStep
  <1>2. Inv /\ IdInv /\ [Next]_vars => [Home]_vars
    BY <1>1
  <1> QED BY <1>2, IdInvariance, Invariance, PTL DEF Spec, SavesStayHome

------------------------------------------------------------------------------
\* The bound on restarts.

Bounded(row) == row.max = None \/ row.count <= row.max

BoundedRows == {row \in App : Bounded(row)}

BoundInv ==
  /\ RowsIn(BoundedRows)
  /\ \A r \in Requests : req[r].pc = "insert" => req[r].row \in BoundedRows

\* No operator on rows but Retried touches the count, and Retried is used
\* below the limit only.
LEMMA RowsStayBounded ==
  ASSUME NEW app \in App, Bounded(app)
  PROVE  /\ \A state \in AppState : Bounded(InState(app, state))
         /\ \A hash \in Hashes : Bounded(Deployed(app, hash))
         /\ \A port \in Overrides \cup {None} : Bounded(WithEnv(app, port))
         /\ Bounded(Started(app))
         /\ \A pid \in Pids : Bounded(Running(app, pid))
         /\ \A code \in ExitCode \cup {None} : Bounded(Stopped(app, code))
         /\ Bounded(Forgotten(app))
         /\ \A code \in ExitCode \cup {None} : Bounded(Exited(app, code))
         /\ Bounded(AfterExit(app))
  <1>1. app.count \in Nat /\ app.max \in Nat \cup {None}
    BY DEF App
  <1>2. app.max = None \/ app.count <= app.max
    BY <1>1 DEF Bounded
  <1>3. \A state \in AppState : Bounded(InState(app, state))
    BY <1>2 DEF InState, App, Bounded
  <1>4. \A hash \in Hashes : Bounded(Deployed(app, hash))
    BY <1>2 DEF Deployed, App, Bounded
  <1>5. Bounded(Started(app))
    BY <1>2 DEF Started, InState, App, Bounded
  <1>6. \A pid \in Pids : Bounded(Running(app, pid))
    BY <1>2 DEF Running, App, Bounded
  <1>7. \A code \in ExitCode \cup {None} : Bounded(Stopped(app, code))
    BY <1>2 DEF Stopped, App, Bounded
  <1>8. Bounded(Forgotten(app))
    BY <1>2 DEF Forgotten, App, Bounded
  <1>9. \A code \in ExitCode \cup {None} : Bounded(Exited(app, code))
    BY <1>2 DEF Exited, App, Bounded
  <1>10. Bounded(AfterExit(app))
    <2>1. CASE ShouldRestart(app) /\ ~ReachedMaxRestarts(app)
      <3>1. AfterExit(app) = Retried(app)
        BY <2>1 DEF AfterExit
      <3>2. app.max = None \/ app.count + 1 <= app.max
        BY <1>1, <2>1 DEF ReachedMaxRestarts
      <3>3. Retried(app).max = app.max /\ Retried(app).count = app.count + 1
        BY DEF Retried, App
      <3> QED BY <3>1, <3>2, <3>3 DEF Bounded
    <2>2. CASE ~(ShouldRestart(app) /\ ~ReachedMaxRestarts(app))
      <3>1. \E state \in AppState : AfterExit(app) = InState(app, state)
        BY <2>2 DEF AfterExit, AppState
      <3> QED BY <1>3, <3>1
    <2> QED BY <2>1, <2>2
  <1>11. \A port \in Overrides \cup {None} : Bounded(WithEnv(app, port))
    BY <1>2 DEF WithEnv, App, Bounded
  <1> QED BY <1>3, <1>4, <1>5, <1>6, <1>7, <1>8, <1>9, <1>10, <1>11

LEMMA BoundedRowsClosed == Closed(BoundedRows)
  <1>1. ASSUME NEW app \in App, NEW port \in Overrides \cup {None}
        PROVE  WithEnv(app, port) \in App
    BY DEF WithEnv, App
  <1> QED BY <1>1, RowsStayRows, RowsStayBounded DEF BoundedRows, Closed

\* Installed apps and new ones have no restarts behind them.
LEMMA NewAppsBounded ==
  ASSUME NEW id \in Ids, NEW n \in Names, NEW port \in Ports
  PROVE  NewApp(id, n, port) \in BoundedRows
  <1>1. NewApp(id, n, port).count = 0 /\ NewApp(id, n, port).max = DefaultMax
    BY DEF NewApp
  <1> QED BY <1>1, NewAppIsApp, AppModelAssumption DEF BoundedRows, Bounded

LEMMA InitBound ==
  ASSUME Init
  PROVE  BoundInv
  <1>1. \A n \in Names : apps[n] \in BoundedRows \cup {None}
    <2>1. PICK num \in Numbering, bin \in [Installed -> Hashes],
               state \in [Installed -> InitStates], health \in [Installed -> InitHealth],
               policy \in [Installed -> InitPolicies], env \in [Installed -> Overrides \cup {None}] :
            apps = [n \in Names |->
                      IF n \in Installed
                        THEN InitialRow(n, num[n], bin[n], state[n], health[n], policy[n], env[n])
                        ELSE None]
      BY DEF Init
    <2>2. ASSUME NEW n \in Installed
          PROVE  Bounded(InitialRow(n, num[n], bin[n], state[n], health[n], policy[n], env[n]))
      <3> DEFINE new == InitialRow(n, num[n], bin[n], state[n], health[n], policy[n], env[n])
      <3>1. new.max = DefaultMax /\ new.count = 0
        BY DEF InitialRow, NewApp
      <3> QED BY <3>1, AppModelAssumption DEF Bounded
    <2>3. \A n \in Names : apps[n] \in App \cup {None}
      BY InitInv DEF Inv, TypeOK, StoreTypeOK
    <2> QED BY <2>1, <2>2, <2>3 DEF BoundedRows
  <1>2. \A c \in Callers : call[c].row = None
    BY DEF Init, IdleCall
  <1>3. \A r \in Requests : req[r].row = None /\ req[r].pc = "idle"
    BY DEF Init, IdleRequest
  <1>4. sup.row = None /\ sup.todo = {}
    BY DEF Init, BootTask, IdleTask
  <1> QED BY <1>1, <1>2, <1>3, <1>4 DEF BoundInv, RowsIn

LEMMA NextKeepsBound ==
  ASSUME Inv, BoundInv, [Next]_vars
  PROVE  RowsStep(BoundedRows) /\ BoundInv'
  <1>1. RowsStep(BoundedRows) /\ RowsIn(BoundedRows)'
    BY NextKeepsRows, BoundedRowsClosed DEF BoundInv, CreateSave, SaveRow, ReqAt
  <1>2. ASSUME NEW r \in Requests, req'[r].pc = "insert" PROVE req'[r].row \in BoundedRows
    <2>1. ApiTypeOK /\ RequestsReady /\ req[r] \in Request
      BY DEF Inv, TypeOK, ApiTypeOK
    <2>2. CreateCheck(r) \/ CreateSetup(r) \/ UNCHANGED req[r]
      BY <1>2, <2>1, CreationsStep DEF Creating
    <2>3. ~CreateCheck(r)
      BY <1>2, <2>1 DEF CreateCheck, Step, IdleRequest, ApiTypeOK
    <2>4. CASE CreateSetup(r)
      <3>1. PICK port \in Ports :
              Step(r, [req[r] EXCEPT !.pc = "insert", !.id = None, !.app = None,
                                     !.row = NewApp(req[r].id, req[r].app, port)])
        BY <2>4 DEF CreateSetup
      <3>2. req'[r].row = NewApp(req[r].id, req[r].app, port)
        BY <2>1, <3>1 DEF Step, ApiTypeOK, Request
      <3> QED BY <2>1, <2>4, <3>2, NewAppsBounded DEF CreateSetup, ReqAt, RequestsReady
    <2> QED BY <1>2, <2>2, <2>3, <2>4 DEF BoundInv
  <1> QED BY <1>1, <1>2 DEF BoundInv

LEMMA BoundInvariance == Spec => []BoundInv
  BY InitBound, NextKeepsBound, Invariance, PTL DEF Spec

\* No app is restarted after exits more often than its max_restarts allows,
\* whatever requests write back and whatever fails or ends in between.
THEOREM RestartsStayBounded == Spec => []RestartsBounded
  <1>1. BoundInv => RestartsBounded
    BY DEF BoundInv, RowsIn, BoundedRows, Bounded, RestartsBounded, Stored
  <1> QED BY <1>1, BoundInvariance, PTL

==============================================================================
