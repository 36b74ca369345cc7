----------------------------- MODULE TrackingProofs ----------------------------
(***************************************************************************)
(* What the supervisor does for processes, proved for every value of the   *)
(* constants under which the code does it.                                 *)
(*                                                                         *)
(* First, the server implements Tracking: Undisturbed.  The step that is   *)
(* not plain is StopMark, which must not be refused while the supervisor   *)
(* holds a child: for that every copy of a row has to be of an app that is *)
(* still stored (module RowProofs says of copies what steps do to them).   *)
(* Then, one process of an app lives at a time, and the supervisor reaches *)
(* it: Orderly.  That rests in addition on the invariants of ServerProofs  *)
(* (the map is empty where a start begins) and HandleProofs (each child is *)
(* in one place at a time).                                                *)
(***************************************************************************)
EXTENDS HandleProofs, RowProofs, FiniteSetTheorems

\* Statements succeed, rows are not deleted, and no ProcessExit arrives, which
\* names an app and not a process. Under any of these the supervisor may let go
\* of a handle without ending the process.
Undisturbed ==
  /\ "io" \notin Faults
  /\ "delete" \notin ClientOps
  /\ "ProcessExit" \notin Library

\* The app that the row was read of is stored.
Kept(row) == apps[row.name] # None /\ apps[row.name].id = row.id

KeptRows == {row \in App : Kept(row)}

\* Nobody works on the row of an app that is gone.
CopiesKept == RowsIn(KeptRows)

NoDeletes == \A r \in Requests : req[r].pc \notin {"teardown", "deleteRuns", "deleteApp"}

\* What never begins.
Untouched ==
  /\ NoDeletes
  /\ \A i \in DOMAIN queue : queue[i].kind # "ProcessExit"
  /\ sup.pc \notin {"exit", "exitClose", "exitSave"}

TrackInv == Inv /\ HandleInv /\ Untouched /\ CopiesKept

------------------------------------------------------------------------------
\* What never begins does not begin.

\* Without deletes, no request is half way through one.
LEMMA RequestsUntouched ==
  ASSUME Undisturbed, Inv, Untouched, NEW r \in Requests, RequestNext(r)
  PROVE  Untouched'
  <1>0. /\ req \in [Requests -> Request] /\ req[r] \in Request
        /\ queue \in Seq(Message) /\ RequestsReady
    BY DEF Inv, TypeOK, ApiTypeOK, SupervisorTypeOK
  <1>1. UNCHANGED sup
    BY RequestsKeepSupervisor DEF Inv, TypeOK, RequestNext
  <1>3. ASSUME NEW frame, frame.pc \notin {"teardown", "deleteRuns", "deleteApp"}, Step(r, frame)
        PROVE  \A s \in Requests : req'[s].pc \notin {"teardown", "deleteRuns", "deleteApp"}
    BY <1>0, <1>3 DEF Step, Untouched, NoDeletes
  <1>4. IdleRequest.pc = "idle"
    BY DEF IdleRequest
  <1>5. ASSUME Respond(r)
        PROVE  \A s \in Requests : req'[s].pc \notin {"teardown", "deleteRuns", "deleteApp"}
    BY <1>3, <1>4, <1>5 DEF Respond
  <1>6. CASE Send(r)
    <2>1. req[r].kind \in {"Stop", "Restart"}
      BY <1>0, <1>6 DEF Send, ReqAt, RequestsReady
    <2> DEFINE m == [kind |-> req[r].kind, app |-> req[r].app, code |-> None]
    <2>2. queue' = Append(queue, m) /\ m.kind # "ProcessExit" /\ m \in Message
      BY <1>0, <1>6, <2>1 DEF Send, ReqAt, RequestsReady, Message
    <2>3. \A i \in DOMAIN queue' : queue'[i] = m \/ (i \in DOMAIN queue /\ queue'[i] = queue[i])
      BY <1>0, <2>2, AppendProperties
    <2>4. \A i \in DOMAIN queue' : queue'[i].kind # "ProcessExit"
      BY <2>2, <2>3 DEF Untouched, NoDeletes
    <2> QED BY <1>1, <1>5, <1>6, <2>4 DEF Send, Untouched, NoDeletes
  <1>7. CASE ~Send(r)
    <2>1. UNCHANGED queue
      BY <1>7 DEF Undisturbed, RequestNext, Begin, Proceed, CreateCheck, DeleteCheck, DeployCheck,
         EnvRead, StopCheck, RestartCheck, ApiStart, CreateSetup, CreateSave, DeleteFiles,
         DeleteHistory, DeleteRow, DeployWrite, DeployBusy, DeploySave, EnvSave, SaveRow, Abandon,
         supVars
    <2> SUFFICES \A s \in Requests : req'[s].pc \notin {"teardown", "deleteRuns", "deleteApp"}
      BY <1>1, <2>1 DEF Untouched, NoDeletes
    <2>2. CASE Respond(r)
      BY <1>5, <2>2
    <2>3. CASE CreateCheck(r) \/ DeployCheck(r) \/ EnvRead(r) \/ StopCheck(r) \/ RestartCheck(r)
               \/ ApiStart(r)
      BY <1>0, <2>3 DEF ApiStart, CreateCheck, DeployCheck, EnvRead, StopCheck, RestartCheck, Step,
         IdleRequest, Untouched, NoDeletes
    <2>4. CASE CreateSetup(r)
      BY <1>0, <2>4 DEF CreateSetup, Step, Request, Untouched, NoDeletes
    <2>5. CASE DeployWrite(r)
      BY <1>0, <2>5 DEF DeployWrite, Step, Request, Untouched, NoDeletes
    <2>6. ~DeleteFiles(r) /\ ~DeleteHistory(r) /\ ~DeleteRow(r)
      BY DEF DeleteFiles, DeleteHistory, DeleteRow, ReqAt, Untouched, NoDeletes
    <2> QED BY <1>7, <2>2, <2>3, <2>4, <2>5, <2>6 DEF Undisturbed, RequestNext, Begin, Proceed,
          DeleteCheck, CreateSave, DeployBusy, DeploySave, EnvSave, SaveRow, Abandon
  <1> QED BY <1>6, <1>7

\* The supervisor never works on a ProcessExit.
LEMMA SupervisorUntouched ==
  ASSUME Inv, Untouched, SupervisorNext
  PROVE  Untouched'
  <1>0. /\ sup \in Task /\ queue \in Seq(Message) /\ UNCHANGED req
        /\ sup.pc \notin {"exit", "exitClose", "exitSave"}
    BY DEF Inv, TypeOK, SupervisorTypeOK, SupervisorNext, Untouched, NoDeletes
  <1>2. ASSUME UNCHANGED queue, sup'.pc \notin {"exit", "exitClose", "exitSave"}
        PROVE  Untouched'
    BY <1>0, <1>2 DEF Untouched, NoDeletes
  <1>3. ASSUME Finish \/ Unhealthy \/ sup' = AfterStop \/ sup' = IdleTask
        PROVE  sup'.pc \notin {"exit", "exitClose", "exitSave"}
    <2>1. ASSUME Finish PROVE sup'.pc \in {"idle", "next"}
      BY <2>1 DEF Finish, Returns, IdleTask
    <2>2. CASE Unhealthy
      BY <1>0, <2>1, <2>2 DEF Unhealthy, Task
    <2>3. CASE sup' = AfterStop
      BY <1>0, <2>1, <2>3 DEF AfterStop, Finish, Task
    <2> QED BY <1>3, <2>1, <2>2, <2>3 DEF IdleTask
  <1>4. CASE Receive
    <2>1. queue # << >> /\ queue' = Tail(queue)
      BY <1>4 DEF Receive
    <2>2. Head(queue) = queue[1] /\ 1 \in DOMAIN queue /\ Head(queue) \in Message
      BY <1>0, <2>1
    <2>3. \A i \in DOMAIN queue' : i + 1 \in DOMAIN queue /\ queue'[i] = queue[i + 1]
      BY <1>0, <2>1
    <2>4. Handler(Head(queue).kind) \in {"startCheck", "stop", "restart", "health"}
      BY <2>2 DEF Handler, Message, Untouched, NoDeletes
    <2>5. sup'.pc = Handler(Head(queue).kind)
      BY <1>0, <1>4 DEF Receive, Task
    <2> QED BY <1>0, <2>3, <2>4, <2>5 DEF Untouched, NoDeletes
  <1>5. CASE ~Receive
    <2>1. UNCHANGED queue
      BY <1>5 DEF SupervisorNext, Work, Tick, StatementFails, Restore,
         NextApp, LoopEnds, StartCheck, StartDone, StartFailed, RestoreFail, StopRead, StopMark,
         Kill, CloseRun, StopSave, RestartRead, HealthRead, ProbePasses, ProbeFails, ExitRead,
         ExitClose, ExitSave
    <2>2. ~ExitRead /\ ~ExitClose /\ ~ExitSave
      BY <1>0 DEF ExitRead, ExitClose, ExitSave, At
    <2>3. sup'.pc \notin {"exit", "exitClose", "exitSave"}
      BY <1>0, <1>3, <1>5, <2>2 DEF SupervisorNext, Work, Tick, StatementFails, Restore,
         NextApp, LoopEnds, StartCheck, StartDone, StartFailed, RestoreFail, StopRead, StopMark,
         Kill, CloseRun, StopSave, RestartRead, HealthRead, ProbePasses, ProbeFails, Goto, Task
    <2> QED BY <1>2, <2>1, <2>3
  <1> QED BY <1>4, <1>5

\* Nobody else begins any of it either.
LEMMA NextUntouched ==
  ASSUME Undisturbed, Inv, Untouched, [Next]_vars
  PROVE  Untouched'
  <1>0. queue \in Seq(Message)
    BY DEF Inv, TypeOK, SupervisorTypeOK
  <1>1. CASE SupervisorNext
    BY <1>1, SupervisorUntouched
  <1>2. CASE \E c \in Callers : CallNext(c)
    BY <1>2 DEF CallNext, supVars, Untouched, NoDeletes
  <1>3. CASE \E r \in Requests : RequestNext(r)
    BY <1>3, RequestsUntouched
  <1>4. CASE LibrarySend
    <2>1. PICK kind \in Library, n \in Names, code \in ExitCode \cup {None} :
            queue' = Append(queue, [kind |-> kind, app |-> n, code |-> code])
      BY <1>4 DEF LibrarySend
    <2> DEFINE m == [kind |-> kind, app |-> n, code |-> code]
    <2>2. m.kind # "ProcessExit" /\ m \in Message
      BY <2>1, ServerAssumption DEF Undisturbed, Message
    <2>3. \A i \in DOMAIN queue' : queue'[i] = m \/ (i \in DOMAIN queue /\ queue'[i] = queue[i])
      BY <1>0, <2>1, <2>2, AppendProperties
    <2>4. \A i \in DOMAIN queue' : queue'[i].kind # "ProcessExit"
      BY <2>2, <2>3 DEF Untouched, NoDeletes
    <2> QED BY <1>4, <2>4 DEF LibrarySend, Untouched, NoDeletes
  <1>5. CASE (\E p \in Pids : ProcessNext(p)) \/ UNCHANGED vars
    BY <1>5 DEF ProcessNext, vars, supVars, Untouched, NoDeletes
  <1>6. CASE Crash
    <2>1. /\ queue' = << >>
          /\ sup' = BootTask
          /\ req' = [r \in Requests |-> IdleRequest]
      BY <1>6 DEF Crash
    <2> QED BY <2>1 DEF BootTask, IdleTask, IdleRequest, Untouched, NoDeletes
  <1> QED BY <1>1, <1>2, <1>3, <1>4, <1>5, <1>6 DEF Next

\* So an app stays in its row, whoever writes it.
LEMMA AppsStay ==
  ASSUME Inv, NoDeletes, [Next]_vars, NEW row \in App, Kept(row)
  PROVE  apps'[row.name] # None /\ apps'[row.name].id = row.id
  <1>1. RowsStep(App) /\ StoreTypeOK /\ row.name \in Names
    BY SavesRows DEF Inv, TypeOK, App
  <1>2. ~ \E r \in Requests : DeleteRow(r)
    BY DEF DeleteRow, ReqAt, NoDeletes
  <1>3. CASE \E other \in App : Save(other)
    <2>1. PICK other \in App : Save(other)
      BY <1>3
    <2>2. CASE other.name = row.name
      BY <1>1, <2>1, <2>2, NoneIsNoApp DEF Save, Saveable, Kept, StoreTypeOK
    <2>3. CASE other.name # row.name
      BY <1>1, <2>1, <2>3 DEF Save, Kept, StoreTypeOK
    <2> QED BY <2>2, <2>3
  <1> QED BY <1>1, <1>2, <1>3 DEF RowsStep, Kept

LEMMA NextKeepsCopies ==
  ASSUME Inv, NoDeletes, CopiesKept, [Next]_vars
  PROVE  CopiesKept'
  <1>0. StoreTypeOK /\ ApiTypeOK /\ RequestsReady
    BY DEF Inv, TypeOK
  <1>1. PICK S : S = KeptRows'
    OBVIOUS
  <1>2. Closed(S)
    BY <1>1, IdentityClosed DEF KeptRows, Kept
  <1>3. KeptRows \subseteq S
    BY <1>1, AppsStay DEF KeptRows, Kept
  <1>4. RowsIn(S)
    BY <1>3 DEF CopiesKept, RowsIn
  <1>5. CASE \E r \in Requests : CreateSave(r) /\ UNCHANGED storeVars
    <2>1. PICK r \in Requests : CreateSave(r) /\ UNCHANGED storeVars
      BY <1>5
    <2>2. UNCHANGED <<apps, call, sup>> /\ \A s \in Requests \ {r} : req'[s] = req[s]
      BY <1>0, <2>1 DEF CreateSave, SaveRow, Respond, Step, ApiTypeOK, supVars, storeVars
    <2>3. req'[r].row = None
      BY <1>0, <2>1 DEF CreateSave, SaveRow, Respond, Step, ApiTypeOK, IdleRequest
    <2> QED BY <1>1, <1>4, <2>2, <2>3 DEF CopiesKept, RowsIn
  <1>6. CASE ~ \E r \in Requests : CreateSave(r) /\ UNCHANGED storeVars
    <2>1. ASSUME NEW r \in Requests, CreateSave(r) PROVE req[r].row \in S
      <3>1. req[r].row \in App /\ req[r].row.name \in Names
        BY <1>0, <2>1 DEF CreateSave, SaveRow, ReqAt, RequestsReady, App
      <3>2. Save(req[r].row)
        BY <1>6, <2>1 DEF CreateSave, SaveRow
      <3>3. apps'[req[r].row.name] = req[r].row
        BY <1>0, <3>1, <3>2 DEF Save, StoreTypeOK
      <3>4. PICK row \in App : row = req[r].row
        BY <3>1
      <3>5. row \in KeptRows'
        BY <3>3, <3>4, NoneIsNoApp DEF KeptRows, Kept
      <3> QED BY <1>1, <3>4, <3>5
    <2>2. RowsIn(S)'
      BY <1>2, <1>4, <2>1, NextKeepsRows
    <2> QED BY <1>1, <2>2 DEF CopiesKept, RowsIn
  <1> QED BY <1>5, <1>6

\* Where no copies are made, the stored rows are the only ones.
LEMMA FewCopies ==
  ASSUME Inv, \A c \in Callers : call[c] = IdleCall, \A r \in Requests : req[r] = IdleRequest,
         sup = BootTask
  PROVE  CopiesKept
  <1>1. \A n \in Names : apps[n] \in KeptRows \cup {None}
    BY DEF Inv, TypeOK, StoreTypeOK, Rooted, KeptRows, Kept
  <1> QED BY <1>1 DEF CopiesKept, RowsIn, IdleCall, IdleRequest, BootTask, IdleTask

\* The invariant under which the server implements Tracking.
LEMMA NextKeepsTrack ==
  ASSUME Undisturbed, TrackInv, [Next]_vars
  PROVE  TrackInv'
  BY NextKeepsInv, NextKeepsHandles, NextUntouched, NextKeepsCopies DEF TrackInv, Untouched

LEMMA InitTrack ==
  ASSUME Init
  PROVE  TrackInv
  <1>1. Inv /\ HandleInv
    BY InitInv, EmptyHandles DEF Init
  <1>2. Untouched /\ CopiesKept
    BY <1>1, FewCopies DEF Init, Untouched, NoDeletes, IdleRequest, BootTask, IdleTask
  <1> QED BY <1>1, <1>2 DEF TrackInv

------------------------------------------------------------------------------
\* The steps of the server, seen as steps of Tracking.

TrackStep == Tracked!Next \/ UNCHANGED <<running, Dying, Reaped, crashes>>

\* Whoever spawns nothing that is dead and waits for nobody leaves Reaped alone.
LEMMA ReapedStays ==
  ASSUME HostTypeOK, NoneReaped,
         \A p \in Pids : proc[p] = None => proc'[p] = None \/ proc'[p].st = "booting",
         \A p \in Pids : proc[p] # None /\ proc[p].st = "reaped" => proc'[p] = proc[p]
  PROVE  UNCHANGED Reaped
  BY DEF Reaped, NoneReaped

\* Spawning, listening and exiting do.
LEMMA HostKeepsReaped ==
  ASSUME HostTypeOK,
         \/ \E c \in Callers : StartStep(c)
         \/ \E p \in Pids : ProcessNext(p)
  PROVE  UNCHANGED Reaped
  <1>1. CASE UNCHANGED proc
    BY <1>1 DEF Reaped
  <1>2. CASE \E c \in Callers : StartSpawn(c)
    <2>1. PICK c \in Callers, p \in Pids : Spawn(p, call[c].row) /\ StartSpawn(c)
      BY <1>2 DEF StartSpawn
    <2>2. /\ proc[p] = None /\ \A q \in Pids \ {p} : proc'[q] = proc[q]
          /\ proc'[p].st = "booting"
      BY <2>1 DEF Spawn, Fresh, HostTypeOK
    <2>3. NoneReaped
      BY <2>1, StartReapsNone DEF StartStep
    <2> QED BY <2>2, <2>3, ReapedStays
  <1>3. CASE \E p \in Pids : ProcessNext(p)
    <2>1. PICK p \in Pids : ProcessNext(p)
      BY <1>3
    <2>2. \A q \in Pids \ {p} : proc'[q] = proc[q]
      BY <2>1 DEF ProcessNext, Listen, Exit, HostTypeOK
    <2>3. proc[p] # None /\ proc[p].st # "reaped"
      BY <2>1 DEF ProcessNext, Listen, Exit, Live
    <2>4. NoneReaped
      BY <2>1, ProcessesReapNone
    <2> QED BY <2>2, <2>3, <2>4, ReapedStays
  <1> QED BY <1>1, <1>2, <1>3 DEF StartStep, StartRead, StartMark, SpawnFails, StartRecord,
        StartCommit, StartRefused, hostVars

\* start_process adopts the child it is given.
LEMMA StartDoneAdopts ==
  ASSUME TrackInv, StartDone, UNCHANGED crashes
  PROVE  Tracked!Adopt(sup.app, call[Super].child) /\ sup.app \in Names
         /\ call[Super].child \in Pids
  <1>0. CallsReady /\ TaskReady /\ SlotFree /\ Owned /\ Super \in Callers
    BY DEF TrackInv, Inv, HandleInv, Callers
  <1>1. sup.pc = "starting" /\ call[Super].pc = "done"
    BY DEF StartDone, At
  <1>2. call[Super].child \in Pids /\ sup.app \in Names /\ running[sup.app] = None
    BY <1>0, <1>1 DEF CallsReady, TaskReady, SlotFree
  <1>3. call[Super].child # None
    BY <1>2, AppModelAssumption DEF Pids
  <1>4. call[Super].child \notin Reaped /\ \A m \in Names : running[m] # call[Super].child
    BY <1>0, <1>3 DEF Owned, Unreaped, Reaped
  <1>5. Dying = None /\ Dying' = None
    BY <1>1 DEF Dying, StartDone, Finish, Returns, IdleTask
  <1>6. running' = [running EXCEPT ![sup.app] = call[Super].child] /\ UNCHANGED Reaped
    BY DEF StartDone, hostVars, Reaped
  <1> QED BY <1>2, <1>4, <1>5, <1>6 DEF Tracked!Adopt

\* handle_stop condemns the process whose handle it takes.
LEMMA StopReadCondemns ==
  ASSUME TrackInv, StopRead, UNCHANGED crashes
  PROVE  TrackStep
  <1>0. /\ sup \in Task /\ sup.pc = "stop" /\ sup.app \in Names
        /\ running \in [Names -> Pids \cup {None}]
    BY DEF TrackInv, Inv, TypeOK, SupervisorTypeOK, TaskReady, StopRead, At
  <1>1. UNCHANGED Reaped /\ Dying = None
    BY <1>0 DEF StopRead, hostVars, Reaped, Dying
  <1>2. CASE Finish /\ UNCHANGED running
    <2>1. Dying' = None
      BY <1>2 DEF Finish, Returns, IdleTask, Dying
    <2> QED BY <1>1, <1>2, <2>1 DEF TrackStep
  <1>3. CASE /\ TakeChild
             /\ sup' = [sup EXCEPT !.pc = IF running[sup.app] # None THEN "stopMark" ELSE "forget",
                                   !.row = Row, !.child = running[sup.app]]
    <2>1. running' = [running EXCEPT ![sup.app] = None]
      BY <1>3 DEF TakeChild
    <2>2. /\ sup'.pc = IF running[sup.app] # None THEN "stopMark" ELSE "forget"
          /\ sup'.child = running[sup.app]
      BY <1>0, <1>3 DEF Task
    <2>3. CASE running[sup.app] # None
      <3>1. Dying' = running[sup.app]
        BY <2>2, <2>3 DEF Dying
      <3>2. Tracked!Condemn(sup.app)
        BY <1>1, <2>1, <2>3, <3>1 DEF Tracked!Condemn
      <3> QED BY <1>0, <3>2 DEF TrackStep, Tracked!Next
    <2>4. CASE running[sup.app] = None
      <3>1. Dying' = None /\ UNCHANGED running
        BY <1>0, <2>1, <2>2, <2>4 DEF Dying
      <3> QED BY <1>1, <3>1 DEF TrackStep
    <2> QED BY <2>3, <2>4
  <1> QED BY <1>2, <1>3 DEF StopRead

\* Child::kill and wait reap the process that is being stopped ...
LEMMA KillReaps ==
  ASSUME TrackInv, Kill
  PROVE  Reaped' = Reaped \cup {sup.child}
  <1>0. sup \in Task /\ HostTypeOK /\ sup.pc = "kill" /\ sup.child \in Pids
        /\ proc[sup.child] # None
    BY DEF TrackInv, Inv, TypeOK, SupervisorTypeOK, TaskReady, Kill, At
  <1> DEFINE new == [[proc[sup.child] EXCEPT !.st = "reaped"] EXCEPT !.code = None]
  <1>1. proc' = [proc EXCEPT ![sup.child] = new]
    BY <1>0 DEF Kill, Reap, HostTypeOK
  <1>2. new.st = "reaped" /\ new \in Process
    BY <1>0 DEF HostTypeOK, Process
  <1> QED BY <1>0, <1>1, <1>2, NoneIsNoProcess DEF Reaped, HostTypeOK

\* ... and so bury it.
LEMMA KillBuries ==
  ASSUME TrackInv, Kill, UNCHANGED crashes
  PROVE  Tracked!Bury
  <1>0. sup \in Task /\ sup.pc = "kill" /\ sup.child \in Pids
    BY DEF TrackInv, Inv, TypeOK, SupervisorTypeOK, TaskReady, Kill, At
  <1>1. sup.child # None
    BY <1>0, AppModelAssumption DEF Pids
  <1>2. Dying = sup.child /\ Dying' = None
    BY <1>0 DEF Dying, Kill, Task
  <1>3. UNCHANGED running
    BY DEF Kill
  <1> QED BY <1>1, <1>2, <1>3, KillReaps DEF Tracked!Bury

\* Nothing else that the supervisor does moves a handle.
LEMMA PlainStepTracks ==
  ASSUME Undisturbed, TrackInv, SupervisorNext, ~StartDone, ~StopRead, ~Kill
  PROVE  UNCHANGED <<running, Dying, Reaped, crashes>>
  <1>0. sup \in Task /\ TaskReady /\ queue \in Seq(Message) /\ Untouched /\ CopiesKept
    BY DEF TrackInv, Inv, TypeOK, SupervisorTypeOK
  <1>1. ~ExitRead /\ ~ExitClose /\ ~ExitSave /\ ~StatementFails
    BY <1>0 DEF ExitRead, ExitClose, ExitSave, At, StatementFails, Untouched, Undisturbed
  <1>2. UNCHANGED <<running, proc, crashes>>
    BY <1>1 DEF SupervisorNext, Work, Receive, Tick, Restore, NextApp, LoopEnds, StartCheck,
       StartFailed, RestoreFail, StopMark, CloseRun, StopSave, RestartRead, HealthRead,
       ProbePasses, ProbeFails, hostVars
  <1>3. CASE StopMark
    <2>1. sup.row \in App /\ Kept(sup.row)
      BY <1>0, <1>3, NoneIsNoApp DEF StopMark, At, TaskReady, CopiesKept, RowsIn, KeptRows
    <2>2. Saveable(InState(sup.row, "Stopping"))
      BY <2>1 DEF Saveable, Kept, InState, App
    <2>3. sup.pc = "stopMark" /\ sup'.pc = "kill" /\ sup'.child = sup.child
      BY <1>0, <1>3, <2>2 DEF StopMark, At, Task
    <2> QED BY <1>2, <2>3 DEF Dying, Reaped
  <1>4. CASE sup.pc \notin {"stopMark", "kill"} /\ sup'.pc \notin {"stopMark", "kill"}
    BY <1>2, <1>4 DEF Dying, Reaped
  <1>5. ASSUME Finish \/ Unhealthy \/ sup' = AfterStop \/ sup' = IdleTask
        PROVE  sup'.pc \notin {"stopMark", "kill"}
    <2>1. ASSUME Finish PROVE sup'.pc \in {"idle", "next"}
      BY <2>1 DEF Finish, Returns, IdleTask
    <2>2. CASE Unhealthy
      BY <1>0, <2>1, <2>2 DEF Unhealthy, Task
    <2>3. CASE sup' = AfterStop
      BY <1>0, <2>1, <2>3 DEF AfterStop, Finish, Task
    <2> QED BY <1>5, <2>1, <2>2, <2>3 DEF IdleTask
  <1>6. CASE Receive
    <2>1. Head(queue) \in Message
      BY <1>0, <1>6 DEF Receive
    <2>2. Handler(Head(queue).kind) \notin {"stopMark", "kill"}
      BY <2>1 DEF Handler, Message
    <2> QED BY <1>0, <1>4, <1>6, <2>2 DEF Receive, At, Task
  <1>7. CASE ~StopMark /\ ~Receive
    <2>1. sup.pc \notin {"stopMark", "kill"}
      BY <1>1, <1>7 DEF SupervisorNext, Work, Tick, Restore, NextApp, LoopEnds, StartCheck,
         StartFailed, RestoreFail, CloseRun, StopSave, RestartRead, HealthRead, ProbePasses,
         ProbeFails, At
    <2>2. sup'.pc \notin {"stopMark", "kill"}
      BY <1>0, <1>1, <1>5, <1>7 DEF SupervisorNext, Work, Tick, Restore, NextApp, LoopEnds,
         StartCheck, StartFailed, RestoreFail, CloseRun, StopSave, RestartRead, HealthRead,
         ProbePasses, ProbeFails, Goto, Task
    <2> QED BY <1>4, <2>1, <2>2
  <1> QED BY <1>3, <1>6, <1>7

\* Every step of the server is one of Tracking, or none.
LEMMA NextTracks ==
  ASSUME Undisturbed, TrackInv, [Next]_vars
  PROVE  TrackStep
  <1>0. HostTypeOK /\ StartTypeOK
    BY DEF TrackInv, Inv, TypeOK
  <1>1. CASE SupervisorNext
    <2>0. UNCHANGED crashes
      BY <1>1 DEF SupervisorNext
    <2>1. CASE StartDone
      BY <2>0, <2>1, StartDoneAdopts DEF TrackStep, Tracked!Next
    <2>2. CASE Kill
      BY <2>0, <2>2, KillBuries DEF TrackStep, Tracked!Next
    <2> QED BY <1>1, <2>0, <2>1, <2>2, StopReadCondemns, PlainStepTracks DEF TrackStep
  <1>2. CASE (\E c \in Callers : CallNext(c)) \/ \E p \in Pids : ProcessNext(p)
    <2>1. UNCHANGED <<running, sup, crashes>>
      BY <1>2 DEF CallNext, ProcessNext, supVars
    <2>2. UNCHANGED Reaped
      BY <1>0, <1>2, HostKeepsReaped DEF CallNext
    <2> QED BY <2>1, <2>2 DEF TrackStep, Dying
  <1>3. CASE \E r \in Requests : RequestNext(r)
    <2>1. PICK r \in Requests : RequestNext(r)
      BY <1>3
    <2>2. UNCHANGED <<running, sup, crashes>>
      BY <2>1, RequestsKeepSupervisor DEF TrackInv, Inv, TypeOK, RequestNext
    <2>3. UNCHANGED proc
      BY <2>1 DEF RequestNext, Begin, Proceed, CreateCheck, DeleteCheck, DeployCheck, EnvRead,
       StopCheck, RestartCheck, ApiStart, CreateSetup, CreateSave, DeleteFiles, DeleteHistory,
       DeleteRow, DeployWrite, DeployBusy, DeploySave, EnvSave, SaveRow, Send, Abandon, hostVars,
       RemoveDir, WriteBinary
    <2> QED BY <2>2, <2>3 DEF TrackStep, Dying, Reaped
  <1>4. CASE LibrarySend \/ UNCHANGED vars
    BY <1>4 DEF LibrarySend, vars, hostVars, supVars, TrackStep, Dying, Reaped
  <1>5. CASE Crash
    <2>1. /\ running' = [n \in Names |-> None]
          /\ sup' = BootTask
          /\ crashes' = crashes + 1
          /\ \E survivors \in SUBSET {p \in Pids : Live(p)} :
               proc' = [p \in Pids |-> IF proc[p] = None \/ p \in survivors
                          THEN proc[p] ELSE [proc[p] EXCEPT !.st = "reaped", !.code = None]]
      BY <1>5 DEF Crash
    <2>2. Dying' = None
      BY <2>1 DEF BootTask, IdleTask, Dying
    <2>3. Reaped \subseteq Reaped'
      <3> SUFFICES ASSUME NEW p \in Pids, proc[p] # None, proc[p].st = "reaped"
                   PROVE  proc'[p] # None /\ proc'[p].st = "reaped"
        BY DEF Reaped
      <3> DEFINE new == [[proc[p] EXCEPT !.st = "reaped"] EXCEPT !.code = None]
      <3>1. new \in Process /\ new.st = "reaped"
        BY <1>0 DEF HostTypeOK, Process
      <3>2. proc'[p] = new
        BY <2>1 DEF Live
      <3> QED BY <3>1, <3>2, NoneIsNoProcess
    <2>4. Reaped' \in SUBSET Pids /\ Reaped' = Reaped \cup Reaped'
      BY <2>3 DEF Reaped
    <2>5. Tracked!ServerEnds
      BY <2>1, <2>2, <2>4 DEF Tracked!ServerEnds
    <2> QED BY <2>5 DEF TrackStep, Tracked!Next
  <1> QED BY <1>1, <1>2, <1>3, <1>4, <1>5 DEF Next

\* The supervisor lets go of a handle only to end that process, and ends it
\* before it turns to anything else, whatever clients, processes and crashes do
\* in between: the server implements Tracking.
THEOREM ServerTracks == Undisturbed => (Spec => ImplementsTracking)
  <1>1. Init => Tracked!Init
    <2> SUFFICES ASSUME Init PROVE Tracked!Init
      OBVIOUS
    <2>1. running = [n \in Names |-> None] /\ Dying = None /\ crashes = 0
      BY DEF Init, Dying, BootTask, IdleTask
    <2>2. Reaped = {}
      BY DEF Init, Reaped
    <2> QED BY <2>1, <2>2 DEF Tracked!Init
  <1>2. TrackStep => [Tracked!Next]_(Tracked!vars)
    BY DEF TrackStep, Tracked!vars
  <1> SUFFICES ASSUME Undisturbed PROVE Spec => Tracked!Spec
    BY DEF ImplementsTracking
  <1>3. TrackInv /\ [Next]_vars => [Tracked!Next]_(Tracked!vars)
    BY <1>2, NextTracks
  <1> QED BY <1>1, <1>3, InitTrack, NextKeepsTrack, PTL DEF Spec, Tracked!Spec

------------------------------------------------------------------------------
\* Exclusion.

\* In addition, nobody starts an app past the supervisor, ...
Managed ==
  /\ Undisturbed
  /\ "start" \notin ClientOps

\* ... and the children of a server end with it. Otherwise the two properties are
\* false.
Orderly ==
  /\ Managed
  /\ "orphans" \notin Faults

\* No request is inside start::execute.
NoDirectStart == \A r \in Requests : call[r].pc = "idle"

\* No statement of the supervisor is refused while it has a child in its hands,
\* and it lets go of one that it has waited for.
Steady ==
  /\ call[Super].child # None => call[Super].pc \in {"record", "commit", "done"}
  /\ sup.pc \in {"stopMark", "kill"} => running[sup.app] = None /\ proc[sup.child].app = sup.app
  /\ sup.pc \in {"closeRun", "stopSave"} /\ sup.child # None => ~Live(sup.child)

OrderInv == TrackInv /\ NoDirectStart /\ Steady /\ NoStray

------------------------------------------------------------------------------
\* Steady and NoStray, one part of the program at a time.

\* Whoever lives has lived before, under the same app.
NoneBorn ==
  \A p \in Pids : /\ Live(p)' => Live(p)
                  /\ proc[p] # None => proc'[p].app = proc[p].app

\* Where the supervisor and its activation stay as they are, nothing is lost.
LEMMA OthersKeepSteady ==
  ASSUME OrderInv, [Next]_vars, NoneBorn,
         UNCHANGED <<running, sup>>, call'[Super] = call[Super]
  PROVE  Steady' /\ NoStray'
  <1>0. CallsReady /\ TaskReady /\ Steady /\ NoStray /\ Super \in Callers /\ sup \in Task
    BY DEF OrderInv, TrackInv, Inv, Callers, TypeOK, SupervisorTypeOK
  <1>1. NoStray'
    BY <1>0 DEF NoneBorn, NoStray, Live
  <1>2. (sup.pc \in {"stopMark", "kill"} =>
           running[sup.app] = None /\ proc[sup.child].app = sup.app)'
    BY <1>0 DEF TaskReady, NoneBorn, Steady
  <1>3. (sup.pc \in {"closeRun", "stopSave"} /\ sup.child # None => ~Live(sup.child))'
    BY <1>0 DEF NoneBorn, Steady, Task, Live
  <1> QED BY <1>0, <1>1, <1>2, <1>3 DEF Steady

\* A step of the activation that spawns nothing leaves the processes alone.
LEMMA StartBearsNone ==
  ASSUME UNCHANGED proc
  PROVE  NoneBorn
  BY DEF NoneBorn, Live

\* The activation that the supervisor awaits is not refused after the spawn,
\* since the app stays in its row.
LEMMA SuperStartKeepsSteady ==
  ASSUME OrderInv, [Next]_vars, StartStep(Super), UNCHANGED supVars
  PROVE  Steady' /\ NoStray'
  <1>0. /\ CallsReady /\ Steady /\ NoStray /\ Rooted /\ Owned /\ Super \in Callers
        /\ StoreTypeOK /\ HostTypeOK /\ StartTypeOK /\ call[Super] \in Call
        /\ UNCHANGED <<running, sup>>
    BY DEF OrderInv, TrackInv, Inv, Callers, TypeOK, StartTypeOK, HandleInv, supVars
  <1>1. call[Super].pc # "idle" /\ call[Super].app \in Names
    BY <1>0 DEF StartStep, StartRead, StartMark, StartSpawn, SpawnFails, StartRecord, StartCommit,
           StartRefused, CallsReady
  <1>2. sup.pc = "starting" /\ sup.child = None
    BY <1>0, <1>1 DEF Owned
  <1>3. call[Super].pc \in {"mark", "spawn", "record", "commit"} =>
          call[Super].row \in App /\ Kept(call[Super].row)
    BY <1>0, NoneIsNoApp DEF CallsReady, OrderInv, TrackInv, CopiesKept, RowsIn, KeptRows
  <1> DEFINE new == call'[Super]
  <1>4. ASSUME UNCHANGED proc, new.child = call[Super].child,
               new.child # None => new.pc \in {"record", "commit", "done"}
        PROVE  Steady' /\ NoStray'
    <2>1. NoStray'
      BY <1>0, <1>4 DEF NoStray, Live
    <2> QED BY <1>0, <1>2, <1>4, <2>1 DEF Steady
  <1>5. ASSUME UNCHANGED proc, NEW pc \in {"failed", "done"}, Return(Super, pc),
               pc = "failed" => call[Super].child = None
        PROVE  Steady' /\ NoStray'
    <2>1. new = [call[Super] EXCEPT !.pc = pc]
      BY <1>0, <1>5 DEF Return, Returned, StartTypeOK
    <2>2. new.pc = pc /\ new.child = call[Super].child
      BY <1>0, <2>1 DEF Call
    <2> QED BY <1>4, <1>5, <2>2
  <1>6. ASSUME UNCHANGED proc, NEW pc \in {"mark", "spawn", "commit"}, NEW row,
               Continue(Super, pc, row),
               call[Super].child # None => pc = "commit"
        PROVE  Steady' /\ NoStray'
    <2>1. new = [[call[Super] EXCEPT !.pc = pc] EXCEPT !.row = row]
      BY <1>0, <1>6 DEF Continue, StartTypeOK
    <2>2. new.pc = pc /\ new.child = call[Super].child
      BY <1>0, <2>1 DEF Call
    <2> QED BY <1>4, <1>6, <2>2
  <1>7. CASE StartRead(Super)
    <2>1. call[Super].child = None /\ UNCHANGED proc
      BY <1>0, <1>7 DEF StartRead, Steady, hostVars
    <2> QED BY <1>5, <1>6, <1>7, <2>1 DEF StartRead
  <1>8. CASE StartMark(Super)
    <2>1. call[Super].child = None /\ UNCHANGED proc
      BY <1>0, <1>8 DEF StartMark, Steady, hostVars
    <2> QED BY <1>6, <1>8, <2>1 DEF StartMark
  <1>9. CASE StartSpawn(Super)
    <2>1. PICK p \in Pids : /\ Spawn(p, call[Super].row)
                            /\ call' = [call EXCEPT ![Super].pc = "record", ![Super].child = p]
      BY <1>9 DEF StartSpawn
    <2>2. new = [[call[Super] EXCEPT !.pc = "record"] EXCEPT !.child = p]
      BY <1>0, <2>1 DEF StartTypeOK
    <2>3. new.pc = "record" /\ new.child = p /\ new.row = call[Super].row
      BY <1>0, <2>2 DEF Call
    <2>4. \A q \in Pids \ {p} : proc'[q] = proc[q]
      BY <1>0, <2>1 DEF Spawn, HostTypeOK
    <2>5. call[Super].child = None /\ UNCHANGED apps
      BY <1>0, <1>9 DEF StartSpawn, Steady, storeVars
    <2>6. NoStray'
      <3> SUFFICES ASSUME NEW q \in Pids, Live(q)'
                   PROVE  running'[proc'[q].app] = q \/ sup'.child = q \/ new.child = q
        BY DEF NoStray
      <3>1. CASE q = p
        BY <2>3, <3>1
      <3>2. CASE q # p
        <4>1. proc'[q] = proc[q] /\ Live(q)
          BY <2>4, <3>2 DEF Live
        <4>2. q # None
          BY AppModelAssumption DEF Pids
        <4> QED BY <1>0, <2>5, <4>1, <4>2 DEF NoStray
      <3> QED BY <3>1, <3>2
    <2> QED BY <1>0, <1>2, <2>3, <2>6 DEF Steady
  <1>10. CASE SpawnFails(Super)
    <2>1. call[Super].child = None /\ UNCHANGED proc
      BY <1>0, <1>10 DEF SpawnFails, Steady, hostVars
    <2> QED BY <1>5, <1>10, <2>1 DEF SpawnFails
  <1>11. CASE StartRecord(Super)
    BY <1>6, <1>11 DEF StartRecord, hostVars
  <1>12. CASE StartCommit(Super)
    BY <1>5, <1>12 DEF StartCommit, hostVars
  <1>13. ~StartRefused(Super)
    <2>1. call[Super].row \in App => call[Super].row.name \in Names
      BY DEF App
    <2> QED BY <1>3, <2>1 DEF StartRefused, Kept, Saveable, HasId, Stored
  <1> QED BY <1>7, <1>8, <1>9, <1>10, <1>11, <1>12, <1>13 DEF StartStep

------------------------------------------------------------------------------
\* Steps of the supervisor task.

\* Where it goes on without a child, and moves neither handles nor processes.
LEMMA FreeStepKeepsSteady ==
  ASSUME OrderInv, UNCHANGED <<proc, running>>,
         sup.child = None, sup'.child = None, sup'.pc \notin {"stopMark", "kill"},
         call[Super].child = None, call'[Super].child = None,
         call'[Super].pc \notin {"mark", "spawn", "record", "commit"}
  PROVE  Steady' /\ NoStray'
  <1>1. \A p \in Pids : p # None
    BY AppModelAssumption DEF Pids
  <1>2. NoStray'
    BY <1>1 DEF OrderInv, NoStray, Live
  <1> QED BY <1>2 DEF Steady

\* Ends of handlers, and steps that neither take a child nor touch one.
LEMMA PlainStepKeepsSteady ==
  ASSUME OrderInv, [Next]_vars,
         \/ Restore \/ LoopEnds \/ Receive \/ Tick \/ RestoreFail \/ RestartRead \/ HealthRead
         \/ ProbePasses \/ ProbeFails \/ StartCheck \/ NextApp \/ StartFailed
  PROVE  Steady' /\ NoStray'
  <1>0. /\ sup \in Task /\ StartTypeOK /\ Super \in Callers /\ queue \in Seq(Message)
        /\ Owned /\ Steady
    BY DEF OrderInv, TrackInv, Inv, TypeOK, SupervisorTypeOK, HandleInv, Callers
  <1>1. UNCHANGED <<proc, running>>
    BY DEF Restore, LoopEnds, Receive, Tick, RestoreFail, RestartRead, HealthRead, ProbePasses,
       ProbeFails, StartCheck, NextApp, StartFailed, hostVars
  <1>2. sup.child = None
    BY <1>0 DEF Owned, Restore, LoopEnds, Receive, Tick, RestoreFail, RestartRead, HealthRead,
       ProbePasses, ProbeFails, StartCheck, NextApp, StartFailed, At
  <1>3. call[Super].child = None
    BY <1>0 DEF Owned, Steady, Restore, LoopEnds, Receive, Tick, RestoreFail, RestartRead,
       HealthRead, ProbePasses, ProbeFails, StartCheck, NextApp, StartFailed, At
  <1>4. call'[Super].child = None /\ call'[Super].pc \in {call[Super].pc, "read", "idle"}
    <2>1. CASE UNCHANGED call
      BY <1>3, <2>1
    <2>2. CASE \E n \in Names : CallStart(n)
      BY <1>0, <2>2 DEF CallStart, StartCall, IdleCall, StartTypeOK
    <2>3. CASE call' = [call EXCEPT ![Super] = IdleCall]
      BY <1>0, <2>3 DEF IdleCall, StartTypeOK
    <2>4. CASE StartCheck
      <3>1. sup.app \in Names
        BY <2>4 DEF StartCheck, At, OrderInv, TrackInv, Inv, TaskReady
      <3> QED BY <2>1, <2>2, <2>4, <3>1 DEF StartCheck
    <2>5. CASE NextApp
      <3>1. \A row \in sup.todo : row.name \in Names
        BY <1>0 DEF Task, App
      <3> QED BY <2>1, <2>2, <2>5, <3>1 DEF NextApp
    <2> QED BY <2>1, <2>3, <2>4, <2>5 DEF Restore, LoopEnds, Receive, Tick, RestoreFail,
          RestartRead, HealthRead, ProbePasses, ProbeFails, StartFailed
  <1>5. call[Super].pc \in {"idle", "failed"}
    BY <1>0 DEF Owned, Restore, LoopEnds, Receive, Tick, RestoreFail, RestartRead,
       HealthRead, ProbePasses, ProbeFails, StartCheck, NextApp, StartFailed, At
  <1> SUFFICES sup'.child = None /\ sup'.pc \notin {"stopMark", "kill"}
    BY <1>1, <1>2, <1>3, <1>4, <1>5, FreeStepKeepsSteady
  <1>6. CASE Finish
    BY <1>6 DEF Finish, Returns, IdleTask
  <1>7. CASE Unhealthy
    BY <1>0, <1>2, <1>6, <1>7 DEF Unhealthy, Task
  <1>8. CASE Receive
    <2>1. Head(queue) \in Message
      BY <1>0, <1>8 DEF Receive
    <2>2. Handler(Head(queue).kind) \notin {"stopMark", "kill"}
      BY <2>1 DEF Handler, Message
    <2> QED BY <1>0, <1>2, <1>8, <2>2 DEF Receive, Task
  <1>9. CASE Restore \/ Tick \/ NextApp
    BY <1>0, <1>2, <1>9 DEF Restore, Tick, NextApp, Task
  <1>10. CASE LoopEnds
    BY <1>10 DEF LoopEnds, IdleTask
  <1>11. CASE RestartRead \/ HealthRead \/ StartCheck \/ StartFailed
    BY <1>0, <1>2, <1>6, <1>7, <1>11
       DEF RestartRead, HealthRead, StartCheck, StartFailed, Goto, Task
  <1> QED BY <1>6, <1>7, <1>8, <1>9, <1>10, <1>11 DEF RestoreFail, ProbePasses, ProbeFails

\* The child of start::execute goes into a free place of the map, ...
LEMMA StartDoneKeepsSteady ==
  ASSUME OrderInv, StartDone
  PROVE  Steady' /\ NoStray'
  <1>0. /\ CallsReady /\ TaskReady /\ SlotFree /\ SupervisorTypeOK /\ StartTypeOK
        /\ HostTypeOK /\ Owned /\ NoStray /\ Super \in Callers
    BY DEF OrderInv, TrackInv, Inv, TypeOK, HandleInv, Callers
  <1>1. sup.pc = "starting" /\ call[Super].pc = "done"
    BY DEF StartDone, At
  <1>2. \A p \in Pids : p # None
    BY AppModelAssumption DEF Pids
  <1>3. /\ call[Super].child \in Pids /\ running \in [Names -> Pids \cup {None}]
        /\ sup.app \in Names /\ running[sup.app] = None
    BY <1>0, <1>1 DEF CallsReady, TaskReady, SlotFree, SupervisorTypeOK
  <1>4. /\ running' = [running EXCEPT ![sup.app] = call[Super].child]
        /\ UNCHANGED proc
        /\ call'[Super] = IdleCall
    BY <1>0 DEF StartDone, hostVars, StartTypeOK
  <1>5. sup.child = None /\ sup'.child = None /\ sup'.pc \in {"idle", "next"}
    BY <1>0, <1>1 DEF Owned, StartDone, Finish, Returns, IdleTask
  <1>6. proc[call[Super].child].app = sup.app
    BY <1>3, <1>0, <1>2 DEF Owned, Unreaped
  <1>7. NoStray'
    <2> SUFFICES ASSUME NEW p \in Pids, Live(p) PROVE running'[proc[p].app] = p
      BY <1>4 DEF NoStray, Live
    <2>1. running[proc[p].app] = p \/ call[Super].child = p
      BY <1>0, <1>2, <1>5 DEF NoStray
    <2>2. proc[p].app \in Names
      BY <1>0 DEF Live, HostTypeOK, Process
    <2> QED BY <1>2, <1>3, <1>4, <1>6, <2>1, <2>2
  <1> QED BY <1>4, <1>5, <1>7 DEF Steady, IdleCall

\* ... handle_stop takes it out into its own hands, ...
LEMMA StopReadKeepsSteady ==
  ASSUME OrderInv, StopRead
  PROVE  Steady' /\ NoStray'
  <1>0. /\ sup \in Task /\ running \in [Names -> Pids \cup {None}] /\ sup.app \in Names
        /\ sup.pc = "stop" /\ Owned /\ NoStray /\ StoreTypeOK /\ Rooted
        /\ \A p \in Pids : p # None
    <2>1. SupervisorTypeOK /\ TaskReady /\ StoreTypeOK /\ Rooted /\ Owned /\ NoStray
      BY DEF OrderInv, TrackInv, Inv, TypeOK, HandleInv
    <2>2. sup.pc = "stop"
      BY DEF StopRead, At
    <2>3. \A p \in Pids : p # None
      BY AppModelAssumption DEF Pids
    <2> QED BY <2>1, <2>2, <2>3 DEF SupervisorTypeOK, TaskReady
  <1>1. /\ UNCHANGED <<proc, call, apps>> /\ sup.child = None
        /\ call[Super].child = None /\ call[Super].pc = "idle"
    BY <1>0 DEF StopRead, hostVars, storeVars, Owned
  <1>2. CASE Finish /\ UNCHANGED running
    <2>1. sup'.child = None /\ sup'.pc \in {"idle", "next"}
      BY <1>2 DEF Finish, Returns, IdleTask
    <2> QED BY <1>1, <1>2, <2>1, FreeStepKeepsSteady
  <1>3. CASE /\ Row # None
             /\ TakeChild
             /\ sup' = [sup EXCEPT !.pc = IF running[sup.app] # None THEN "stopMark" ELSE "forget",
                                   !.row = Row, !.child = running[sup.app]]
    <2>1. running' = [running EXCEPT ![sup.app] = None]
      BY <1>3 DEF TakeChild
    <2>2. /\ sup'.pc = IF running[sup.app] # None THEN "stopMark" ELSE "forget"
          /\ sup'.row = Row /\ sup'.child = running[sup.app] /\ sup'.app = sup.app
      BY <1>0, <1>3 DEF Task
    <2>3. NoStray'
      BY <1>0, <1>1, <2>1, <2>2 DEF NoStray, Live
    <2>4. running[sup.app] # None => proc[running[sup.app]].app = sup.app
      BY <1>0 DEF OrderInv, TrackInv, HandleInv, HandlesAreSound
    <2>5. running'[sup'.app] = None
      BY <1>0, <2>1, <2>2
    <2>6. sup'.pc \in {"stopMark", "kill"} => proc'[sup'.child].app = sup'.app
      BY <1>1, <2>2, <2>4
    <2> QED BY <1>1, <2>2, <2>3, <2>5, <2>6 DEF Steady
  <1> QED BY <1>2, <1>3 DEF StopRead

\* ... and lets go of it when it is dead.
LEMMA StopStepsKeepSteady ==
  ASSUME OrderInv, StopMark \/ Kill \/ CloseRun \/ StopSave
  PROVE  Steady' /\ NoStray'
  <1>0. /\ sup \in Task /\ HostTypeOK /\ TaskReady /\ Owned /\ NoStray /\ Steady
        /\ sup.pc \in {"stopMark", "kill", "closeRun", "stopSave", "forget"}
        /\ \A p \in Pids : p # None
    <2>1. SupervisorTypeOK /\ HostTypeOK /\ TaskReady /\ Owned /\ NoStray /\ Steady
      BY DEF OrderInv, TrackInv, Inv, TypeOK, HandleInv
    <2>2. sup.pc \in {"stopMark", "kill", "closeRun", "stopSave", "forget"}
      BY DEF StopMark, Kill, CloseRun, StopSave, At
    <2>3. \A p \in Pids : p # None
      BY AppModelAssumption DEF Pids
    <2> QED BY <2>1, <2>2, <2>3 DEF SupervisorTypeOK
  <1>1. /\ UNCHANGED <<call, running>>
        /\ call[Super].child = None /\ call[Super].pc = "idle"
    BY <1>0 DEF StopMark, Kill, CloseRun, StopSave, Owned
  <1>2. CASE StopMark
    <2>1. sup.row \in App /\ Kept(sup.row) /\ UNCHANGED proc
      BY <1>0, <1>2, NoneIsNoApp DEF StopMark, At, TaskReady, OrderInv, TrackInv, CopiesKept, RowsIn,
         KeptRows, hostVars
    <2> DEFINE row == InState(sup.row, "Stopping")
    <2>2. row.id = sup.row.id /\ row.name = sup.row.name
      BY <2>1 DEF InState, App
    <2>3. Saveable(row)
      BY <2>1, <2>2 DEF Saveable, Kept
    <2>4. sup'.pc = "kill" /\ sup'.child = sup.child /\ sup'.app = sup.app
      BY <1>0, <1>2, <2>3 DEF StopMark, Task
    <2>5. NoStray'
      BY <1>0, <1>1, <2>1, <2>4 DEF NoStray, Live
    <2> QED BY <1>0, <1>1, <1>2, <2>1, <2>4, <2>5 DEF Steady, StopMark, At
  <1>3. CASE Kill
    <2>1. /\ sup.child \in Pids /\ proc[sup.child] # None
          /\ sup'.pc = "closeRun" /\ sup'.child = sup.child
      BY <1>0, <1>3 DEF Kill, At, TaskReady, Task
    <2> DEFINE new == [[proc[sup.child] EXCEPT !.st = "reaped"] EXCEPT !.code = None]
    <2>2. proc' = [proc EXCEPT ![sup.child] = new]
      BY <1>0, <1>3, <2>1 DEF Kill, Reap, HostTypeOK
    <2>3. new.st = "reaped"
      BY <1>0, <2>1 DEF HostTypeOK, Process
    <2>4. ~Live(sup.child)' /\ \A p \in Pids \ {sup.child} : proc'[p] = proc[p]
      BY <1>0, <2>1, <2>2, <2>3 DEF Live, HostTypeOK
    <2>5. NoStray'
      BY <1>0, <1>1, <2>1, <2>4 DEF NoStray, Live
    <2> QED BY <1>1, <2>1, <2>4, <2>5 DEF Steady, Live
  <1>4. CASE CloseRun
    <2>1. sup'.pc = "stopSave" /\ sup'.child = sup.child /\ UNCHANGED proc
      BY <1>0, <1>4 DEF CloseRun, Goto, Task, hostVars
    <2>2. NoStray'
      BY <1>1, <2>1 DEF OrderInv, NoStray, Live
    <2> QED BY <1>0, <1>1, <1>4, <2>1, <2>2 DEF Steady, CloseRun, At, Live
  <1>5. CASE StopSave
    <2>1. sup.child # None => ~Live(sup.child)
      BY <1>0, <1>5 DEF StopSave, At, Steady, Owned
    <2>2. UNCHANGED proc /\ sup'.child = None /\ sup'.pc \notin {"stopMark", "kill"}
      <3>1. ASSUME Finish PROVE sup'.child = None /\ sup'.pc \in {"idle", "next"}
        BY <3>1 DEF Finish, Returns, IdleTask
      <3>2. CASE sup' = [sup EXCEPT !.pc = "startCheck", !.row = None, !.child = None, !.code = None]
        BY <1>0, <1>5, <3>2 DEF Task, StopSave, hostVars
      <3> QED BY <1>5, <3>1, <3>2 DEF StopSave, AfterStop, Finish, hostVars
    <2>3. NoStray'
      BY <1>0, <1>1, <2>1, <2>2 DEF NoStray, Live
    <2> QED BY <1>1, <2>2, <2>3 DEF Steady
  <1> QED BY <1>2, <1>3, <1>4, <1>5

------------------------------------------------------------------------------

\* Nobody calls start::execute past the supervisor.
LEMMA NextStartsNoneDirectly ==
  ASSUME "start" \notin ClientOps, StartTypeOK, NoDirectStart, [Next]_vars
  PROVE  NoDirectStart'
  <1>1. CASE UNCHANGED call
    BY <1>1 DEF NoDirectStart
  <1>2. ASSUME NEW new, call' = [call EXCEPT ![Super] = new] PROVE NoDirectStart'
    BY <1>2, StartAssumption DEF NoDirectStart, StartTypeOK, Callers
  <1>3. CASE SupervisorNext
    BY <1>1, <1>2, <1>3 DEF SupervisorNext, Work, Receive, Tick, StatementFails, Restore,
       NextApp, LoopEnds, StartCheck, StartDone, StartFailed, RestoreFail, StopRead, StopMark,
       Kill, CloseRun, StopSave, RestartRead, HealthRead, ProbePasses, ProbeFails, ExitRead,
       ExitClose, ExitSave, CallStart, Return
  <1>4. CASE \E c \in Callers : CallNext(c)
    <2>1. PICK c \in Callers : StartStep(c)
      BY <1>4 DEF CallNext
    <2>2. call[c].pc # "idle"
      BY <2>1 DEF StartStep, StartRead, StartMark, StartSpawn, SpawnFails, StartRecord,
         StartCommit, StartRefused
    <2>3. c = Super
      BY <2>2 DEF NoDirectStart, Callers
    <2> QED BY <2>1, <2>3, StartAssumption DEF NoDirectStart, StartStep, StartRead, StartMark,
          StartSpawn, SpawnFails, StartRecord, StartCommit, StartRefused, Return, Continue,
          StartTypeOK, Callers
  <1>5. CASE \E r \in Requests : RequestNext(r)
    <2>1. PICK r \in Requests : RequestNext(r)
      BY <1>5
    <2>2. CASE Abandon(r)
      BY <2>2 DEF Abandon, IdleCall, NoDirectStart, StartTypeOK, Callers
    <2> QED BY <1>1, <2>1, <2>2 DEF RequestNext, Begin, Proceed, CreateCheck, DeleteCheck,
          DeployCheck, EnvRead, StopCheck, RestartCheck, ApiStart, CreateSetup, CreateSave,
          DeleteFiles, DeleteHistory, DeleteRow, DeployWrite, DeployBusy, DeploySave, EnvSave,
          SaveRow, Send
  <1>6. CASE (\E p \in Pids : ProcessNext(p)) \/ LibrarySend \/ UNCHANGED vars
    BY <1>1, <1>6 DEF ProcessNext, LibrarySend, vars
  <1>7. CASE Crash
    BY <1>7 DEF Crash, IdleCall, NoDirectStart, Callers
  <1> QED BY <1>3, <1>4, <1>5, <1>6, <1>7 DEF Next

\* Every step keeps all of it.
LEMMA NextKeepsOrder ==
  ASSUME Orderly, OrderInv, [Next]_vars
  PROVE  OrderInv'
  <1>0. StartTypeOK /\ HostTypeOK
    BY DEF OrderInv, TrackInv, Inv, TypeOK
  <1>1. TrackInv' /\ NoDirectStart'
    BY <1>0, NextKeepsTrack, NextStartsNoneDirectly DEF OrderInv, Orderly, Managed
  <1> SUFFICES Steady' /\ NoStray'
    BY <1>1 DEF OrderInv
  <1>2. CASE SupervisorNext
    <2>1. ~ExitRead /\ ~ExitClose /\ ~ExitSave /\ ~StatementFails
      BY DEF ExitRead, ExitClose, ExitSave, At, StatementFails, OrderInv, TrackInv, Untouched,
         Orderly, Managed, Undisturbed
    <2> QED BY <1>2, <2>1, PlainStepKeepsSteady, StartDoneKeepsSteady, StopReadKeepsSteady,
          StopStepsKeepSteady DEF SupervisorNext, Work
  <1>3. CASE \E c \in Callers : CallNext(c)
    <2>1. PICK c \in Callers : StartStep(c) /\ UNCHANGED supVars
      BY <1>3 DEF CallNext
    <2>2. call[c].pc # "idle"
      BY <2>1 DEF StartStep, StartRead, StartMark, StartSpawn, SpawnFails, StartRecord,
         StartCommit, StartRefused
    <2>3. c = Super
      BY <2>2 DEF OrderInv, NoDirectStart, Callers
    <2> QED BY <2>1, <2>3, SuperStartKeepsSteady
  <1>4. CASE \E r \in Requests : RequestNext(r)
    <2>1. PICK r \in Requests : RequestNext(r)
      BY <1>4
    <2>2. UNCHANGED <<running, sup>>
      BY <2>1, RequestsKeepSupervisor DEF OrderInv, TrackInv, Inv, TypeOK, RequestNext
    <2>3. UNCHANGED proc
      BY <2>1 DEF RequestNext, Begin, Proceed, CreateCheck, DeleteCheck, DeployCheck, EnvRead,
       StopCheck, RestartCheck, ApiStart, CreateSetup, CreateSave, DeleteFiles, DeleteHistory,
       DeleteRow, DeployWrite, DeployBusy, DeploySave, EnvSave, SaveRow, Send, Abandon, hostVars,
       RemoveDir, WriteBinary
    <2> QED BY <1>0, <2>1, <2>2, <2>3, RequestsKeepSuper, StartBearsNone, OthersKeepSteady
  <1>5. CASE \E p \in Pids : ProcessNext(p)
    <2>1. PICK p \in Pids : ProcessNext(p)
      BY <1>5
    <2>2. NoneBorn
      <3>1. \A q \in Pids \ {p} : proc'[q] = proc[q]
        BY <1>0, <2>1 DEF ProcessNext, Listen, Exit, HostTypeOK
      <3>2. Live(p)
        BY <2>1 DEF ProcessNext, Listen, Exit, Live
      <3>3. NoneReaped
        BY <1>0, <2>1, ProcessesReapNone
      <3> QED BY <3>1, <3>2, <3>3 DEF NoneBorn, NoneReaped, Live
    <2>3. UNCHANGED <<running, sup>> /\ call'[Super] = call[Super]
      BY <2>1 DEF ProcessNext, supVars
    <2> QED BY <2>2, <2>3, OthersKeepSteady
  <1>6. CASE LibrarySend \/ UNCHANGED vars
    <2>1. UNCHANGED <<proc, call, running, sup>>
      BY <1>6 DEF LibrarySend, vars, hostVars, supVars
    <2> QED BY <2>1, StartBearsNone, OthersKeepSteady
  <1>7. CASE Crash
    <2>1. /\ call' = [c \in Callers |-> IdleCall]
          /\ sup' = BootTask
          /\ \E survivors \in SUBSET {p \in Pids : Live(p)} :
               /\ survivors = {}
               /\ proc' = [p \in Pids |-> IF proc[p] = None \/ p \in survivors
                             THEN proc[p] ELSE [proc[p] EXCEPT !.st = "reaped", !.code = None]]
      BY <1>7 DEF Crash, Orderly
    <2>2. \A p \in Pids : ~Live(p)'
      <3> SUFFICES ASSUME NEW p \in Pids, proc[p] # None
                   PROVE  proc'[p].st = "reaped"
        BY <2>1 DEF Live
      <3> DEFINE new == [[proc[p] EXCEPT !.st = "reaped"] EXCEPT !.code = None]
      <3>1. new.st = "reaped"
        BY <1>0 DEF HostTypeOK, Process
      <3> QED BY <2>1, <3>1
    <2> QED BY <2>1, <2>2 DEF Steady, NoStray, IdleCall, BootTask, IdleTask, Callers
  <1> QED BY <1>2, <1>3, <1>4, <1>5, <1>6, <1>7 DEF Next

\* The server begins without processes.
LEMMA InitOrder ==
  ASSUME Init
  PROVE  OrderInv
  <1>1. NoStray
    BY DEF Init, NoStray, Live
  <1>2. NoDirectStart /\ Steady
    BY DEF Init, NoDirectStart, Steady, IdleCall, BootTask, IdleTask, Callers
  <1> QED BY <1>1, <1>2, InitTrack DEF OrderInv

LEMMA OrderInvariance == Orderly => (Spec => []OrderInv)
  <1> SUFFICES ASSUME Orderly PROVE Spec => []OrderInv
    OBVIOUS
  <1> QED BY InitOrder, NextKeepsOrder, PTL DEF Spec

\* The supervisor reaches every process: it holds its handle, or it is about to.
THEOREM NothingStrays == Orderly => (Spec => []NoStray)
  <1>1. OrderInv => NoStray
    BY DEF OrderInv
  <1> QED BY <1>1, OrderInvariance, PTL

\* Starts, stops, restarts, health checks, deployments and crashes never make
\* two processes of an app live at the same time.
THEOREM OneProcessLives == Orderly => (Spec => []OneLiveProcess)
  <1>1. OrderInv => OneLiveProcess
    <2> SUFFICES ASSUME OrderInv, NEW n \in Names PROVE Cardinality(LiveOf(n)) <= 1
      BY DEF OneLiveProcess
    <2>0. NoStray /\ Owned /\ HandlesAreSound /\ Steady /\ SlotFree
      BY DEF OrderInv, TrackInv, HandleInv, Inv
    <2>1. ASSUME NEW p \in LiveOf(n) PROVE p # None /\ Live(p) /\ proc[p].app = n /\ p \in Pids
      BY <2>1, AppModelAssumption DEF LiveOf, Pids
    \* A child in the supervisor's hands is of an app whose place in the map is free.
    <2>2. ASSUME NEW p \in LiveOf(n), sup.child = p PROVE running[n] = None /\ sup.pc # "starting"
      BY <2>0, <2>1, <2>2 DEF Owned, Steady
    <2>3. ASSUME NEW p \in LiveOf(n), call[Super].child = p
          PROVE  running[n] = None /\ sup.pc = "starting"
      BY <2>0, <2>1, <2>3 DEF Owned, Unreaped, SlotFree
    <2>4. \A p, q \in LiveOf(n) : p = q
      BY <2>0, <2>1, <2>2, <2>3 DEF NoStray
    <2>5. LiveOf(n) = {} \/ \E p : LiveOf(n) = {p}
      BY <2>4
    <2>6. Cardinality(LiveOf(n)) = 0 \/ Cardinality(LiveOf(n)) = 1
      BY <2>5, FS_EmptySet, FS_Singleton, Zenon
    <2> QED BY <2>6
  <1> QED BY <1>1, OrderInvariance, PTL

==============================================================================
