----------------------------- MODULE ProxyProofs -----------------------------
(***************************************************************************)
(* The proofs about the proxy and about ports, for every value of the      *)
(* constants: what a visitor's request is, that a process which outlived   *)
(* its server or whose handle was dropped is never taken up again, on what *)
(* terms no two apps are given the same port, and that a visitor reaches   *)
(* the app that was asked for.                                             *)
(***************************************************************************)
EXTENDS HandleProofs, Proxy

------------------------------------------------------------------------------
\* Steps of the whole are steps of the server, as far as the server goes.

LEMMA ServerUnderneath == ProxySpec => Spec
  <1>1. ProxyInit => Init
    BY DEF ProxyInit
  <1>2. [ProxyNext]_proxyVars => [Next]_vars
    BY DEF ProxyNext, ServerNext, VisitorNext, proxyVars
  <1> QED BY <1>1, <1>2, PTL DEF ProxySpec, Spec

\* The invariants of the server hold, ...
LEMMA SpecInvariants == Spec => [](Inv /\ HandleInv)
  <1>1. Init => HandleInv
    BY EmptyHandles DEF Init
  <1>2. Spec => []Inv
    BY Invariance
  <1> QED BY <1>1, <1>2, NextKeepsHandles, PTL DEF Spec

\* ... behind the proxy as well.
LEMMA ServerInvariants == ProxySpec => [](Inv /\ HandleInv)
  BY SpecInvariants, ServerUnderneath, PTL

------------------------------------------------------------------------------
\* A stray process stays one as long as nobody takes hold of it.

\* No step gets at p: not by a handle, not as a child that it starts or stops.
Untaken(p) ==
  /\ running[proc[p].app] # p
  /\ sup.child # p
  /\ \A c \in Callers : call[c].child # p

LEMMA StrayIsUntaken ==
  ASSUME HostTypeOK, NEW p \in Pids, Stray(p)
  PROVE  Untaken(p) /\ proc[p] \in Process /\ proc[p].app \in Names /\ p # None
  BY NoneIsNoProcess, AppModelAssumption DEF Stray, Untaken, Live, HostTypeOK, Process, Pids

\* Activations begin without a child and spawn new ones.
LEMMA StartTakesNone ==
  ASSUME Inv, NEW p \in Pids, Stray(p), NEW c \in Callers, StartStep(c)
  PROVE  proc'[p] = proc[p] /\ \A d \in Callers : call'[d].child # p
  <1>0. /\ HostTypeOK /\ StartTypeOK /\ p # None
        /\ \A d \in Callers : call[d] \in Call /\ call[d].child # p
    BY StrayIsUntaken DEF Inv, TypeOK, StartTypeOK, Untaken
  <1>1. CASE StartSpawn(c)
    <2>1. PICK q \in Pids : /\ Spawn(q, call[c].row)
                            /\ call' = [call EXCEPT ![c].pc = "record", ![c].child = q]
      BY <1>1 DEF StartSpawn
    <2>2. proc[q] = None /\ proc[p] # None
      BY <2>1 DEF Spawn, Fresh, Stray, Live
    <2>3. proc'[p] = proc[p]
      BY <1>0, <2>1, <2>2 DEF Spawn, HostTypeOK
    <2> DEFINE new == [[call[c] EXCEPT !.pc = "record"] EXCEPT !.child = q]
    <2>4. new.child = q
      BY <1>0 DEF Call
    <2>5. \A d \in Callers : call'[d] = IF d = c THEN new ELSE call[d]
      BY <1>0, <2>1 DEF StartTypeOK
    <2> QED BY <1>0, <2>2, <2>3, <2>4, <2>5
  <1>2. ASSUME NEW pc, Return(c, pc)
        PROVE  \A d \in Callers : call'[d].child # p
    <2> DEFINE new == [call[c] EXCEPT !.pc = pc]
    <2>1. new.child = call[c].child /\ IdleCall.child = None
      BY <1>0 DEF Call, IdleCall
    <2>2. \A d \in Callers : call'[d] \in {call[d], new, IdleCall} /\ (d # c => call'[d] = call[d])
      BY <1>0, <1>2 DEF Return, Returned, StartTypeOK
    <2> QED BY <1>0, <2>1, <2>2
  <1>3. ASSUME NEW pc, NEW row, Continue(c, pc, row)
        PROVE  \A d \in Callers : call'[d].child # p
    <2> DEFINE new == [[call[c] EXCEPT !.pc = pc] EXCEPT !.row = row]
    <2>1. new.child = call[c].child
      BY <1>0 DEF Call
    <2>2. \A d \in Callers : call'[d] = IF d = c THEN new ELSE call[d]
      BY <1>0, <1>3 DEF Continue, StartTypeOK
    <2> QED BY <1>0, <2>1, <2>2
  <1>4. CASE StartRead(c) \/ StartMark(c) \/ StartRecord(c)
    BY <1>2, <1>3, <1>4 DEF StartRead, StartMark, StartRecord, hostVars
  <1>5. CASE SpawnFails(c) \/ StartCommit(c) \/ StartRefused(c)
    BY <1>2, <1>5 DEF SpawnFails, StartCommit, StartRefused, hostVars
  <1> QED BY <1>1, <1>4, <1>5 DEF StartStep

\* A request begins an activation without a child, or drops one.
LEMMA RequestTakesNone ==
  ASSUME Inv, NEW p \in Pids, Stray(p), NEW r \in Requests, RequestNext(r)
  PROVE  proc' = proc /\ \A d \in Callers : call'[d].child # p
  <1>0. /\ HostTypeOK /\ StartTypeOK /\ p # None /\ r \in Callers
        /\ \A d \in Callers : call[d].child # p
    BY StrayIsUntaken DEF Inv, TypeOK, Untaken, Callers
  <1>1. /\ proc' = proc
        /\ \/ UNCHANGED call
           \/ call' = [call EXCEPT ![r] = IdleCall]
           \/ \E n \in Names : call' = [call EXCEPT ![r] = StartCall(n)]
    BY DEF RequestNext, Begin, Proceed, CreateCheck, DeleteCheck, DeployCheck, EnvRead,
       StopCheck, RestartCheck, ApiStart, CreateSetup, CreateSave, DeleteFiles, DeleteHistory,
       DeleteRow, DeployWrite, DeployBusy, DeploySave, EnvSave, SaveRow, Send, Abandon, hostVars,
       RemoveDir, WriteBinary, Stored
  <1>2. IdleCall.child = None /\ \A n : StartCall(n).child = None
    BY DEF IdleCall, StartCall
  <1> QED BY <1>0, <1>1, <1>2 DEF StartTypeOK

\* The supervisor puts into the map, or takes out of it, a child of its own: a
\* handle that it takes is of a process of that app, whose handle p is not.
LEMMA SupervisorTakesNone ==
  ASSUME Inv, HandleInv, NEW p \in Pids, Stray(p), SupervisorStep
  PROVE  /\ proc'[p] = proc[p]
         /\ running'[proc[p].app] # p
         /\ sup'.child # p
         /\ \A d \in Callers : call'[d].child # p
  <1>0. /\ HostTypeOK /\ StartTypeOK /\ sup \in Task /\ p # None /\ proc[p].app \in Names
        /\ running[proc[p].app] # p /\ sup.child # p
        /\ \A d \in Callers : call[d].child # p
        /\ running \in [Names -> Pids \cup {None}]
        /\ Super \in Callers
    BY StrayIsUntaken DEF Inv, TypeOK, SupervisorTypeOK, Untaken, Callers
  <1>1. IdleTask.child = None /\ IdleCall.child = None /\ \A n : StartCall(n).child = None
    BY DEF IdleTask, IdleCall, StartCall
  <1>2. \A n \in Names : running[n] # p
    BY <1>0 DEF HandleInv, HandlesAreSound
  <1>3. proc'[p] = proc[p]
    <2>1. CASE Kill
      BY <1>0, <2>1 DEF Kill, Reap, HostTypeOK
    <2>2. CASE ~Kill
      BY <2>2 DEF SupervisorStep, Work, StatementFails, Restore, NextApp, LoopEnds, Receive, Tick,
         StartCheck, StartDone, StartFailed, RestoreFail, StopRead, StopMark, CloseRun, StopSave,
         RestartRead, HealthRead, ProbePasses, ProbeFails, ExitRead, ExitClose, ExitSave, hostVars
    <2> QED BY <2>1, <2>2
  <1>4. running'[proc[p].app] # p
    <2>1. CASE StartDone
      BY <1>0, <2>1 DEF StartDone
    <2>2. CASE UNCHANGED running \/ TakeChild
      BY <1>0, <2>2 DEF TakeChild
    <2> QED BY <2>1, <2>2 DEF SupervisorStep, Work, StatementFails, Restore, NextApp, LoopEnds,
         Receive, Tick, StartCheck, StartFailed, RestoreFail, StopRead, StopMark, Kill, CloseRun,
         StopSave, RestartRead, HealthRead, ProbePasses, ProbeFails, ExitRead, ExitClose, ExitSave
  <1>5. \A d \in Callers : call'[d].child # p
    <2>1. CASE \/ UNCHANGED call
               \/ call' = [call EXCEPT ![Super] = IdleCall]
               \/ \E n : CallStart(n)
      BY <1>0, <1>1, <2>1 DEF CallStart, StartTypeOK
    <2>2. CASE Return(Super, "failed")
      <3> DEFINE new == [call[Super] EXCEPT !.pc = "failed"]
      <3>1. new.child = call[Super].child
        BY <1>0 DEF StartTypeOK, Call
      <3>2. \A d \in Callers : call'[d] = IF d = Super THEN new ELSE call[d]
        BY <1>0, <2>2 DEF Return, Returned, StartTypeOK
      <3> QED BY <1>0, <3>1, <3>2
    <2> QED BY <2>1, <2>2 DEF SupervisorStep, Work, StatementFails, Restore, NextApp, LoopEnds,
         Receive, Tick, StartCheck, StartDone, StartFailed, RestoreFail, StopRead, StopMark, Kill,
         CloseRun, StopSave, RestartRead, HealthRead, ProbePasses, ProbeFails, ExitRead, ExitClose,
         ExitSave
  <1>6. sup'.child # p
    <2>1. CASE Finish \/ sup' = IdleTask \/ UNCHANGED sup
      BY <1>0, <1>1, <2>1 DEF Finish, Returns, IdleTask
    <2>2. CASE Unhealthy
      BY <1>0, <2>1, <2>2 DEF Unhealthy, Task
    <2>3. CASE StopSave
      BY <1>0, <2>1, <2>3 DEF StopSave, AfterStop, Finish, Task
    <2>4. CASE StopRead
      BY <1>0, <1>2, <2>1, <2>4 DEF StopRead, Task, Inv, TaskReady, At
    <2>5. CASE NextApp \/ Tick \/ Restore \/ Receive
      BY <1>0, <2>5 DEF NextApp, Tick, Restore, Receive, Task
    <2>6. CASE StartCheck \/ StartDone \/ StartFailed \/ LoopEnds
      BY <1>0, <2>1, <2>6 DEF StartCheck, StartDone, StartFailed, LoopEnds, Goto, Task
    <2>7. CASE RestoreFail \/ StopMark \/ Kill \/ CloseRun
      BY <1>0, <2>1, <2>7 DEF RestoreFail, StopMark, Kill, CloseRun, Goto, Task
    <2>8. CASE RestartRead \/ HealthRead \/ ProbePasses \/ ProbeFails
      BY <1>0, <2>1, <2>2, <2>8 DEF RestartRead, HealthRead, ProbePasses, ProbeFails, Task
    <2>9. CASE ExitRead \/ ExitClose \/ ExitSave
      BY <1>0, <2>1, <2>9 DEF ExitRead, ExitClose, ExitSave, Goto, Task
    <2>10. CASE StatementFails
      BY <2>1, <2>2, <2>10 DEF StatementFails
    <2> QED BY <2>3, <2>4, <2>5, <2>6, <2>7, <2>8, <2>9, <2>10 DEF SupervisorStep, Work
  <1> QED BY <1>3, <1>4, <1>5, <1>6

------------------------------------------------------------------------------

\* Whoever is not taken hold of stays astray until it exits.
LEMMA NextKeepsStray ==
  ASSUME Inv, HandleInv, NEW p \in Pids, Stray(p), Next, crashes' = crashes
  PROVE  Stray(p)' \/ proc'[p].st = "exited"
  <1>0. /\ HostTypeOK /\ Untaken(p) /\ proc[p] \in Process /\ crashes \in Nat
    BY StrayIsUntaken, ServerAssumption DEF Inv, TypeOK
  <1>1. ASSUME proc'[p] = proc[p], running'[proc[p].app] # p, sup'.child # p,
               \A d \in Callers : call'[d].child # p
        PROVE  Stray(p)'
    BY <1>1 DEF Stray, Live
  <1>2. CASE SupervisorNext
    BY <1>1, <1>2, SupervisorTakesNone DEF SupervisorNext, SupervisorStep
  <1>3. CASE \E c \in Callers : CallNext(c)
    BY <1>0, <1>1, <1>3, StartTakesNone DEF CallNext, supVars, Untaken
  <1>4. CASE \E r \in Requests : RequestNext(r)
    <2>1. PICK r \in Requests : RequestNext(r)
      BY <1>4
    <2>2. UNCHANGED <<running, sup>>
      BY <2>1 DEF RequestNext, Begin, Proceed, CreateCheck, DeleteCheck, DeployCheck, EnvRead,
       StopCheck, RestartCheck, ApiStart, CreateSetup, CreateSave, DeleteFiles, DeleteHistory,
       DeleteRow, DeployWrite, DeployBusy, DeploySave, EnvSave, SaveRow, Send, Abandon, supVars
    <2> QED BY <1>0, <1>1, <2>1, <2>2, RequestTakesNone DEF Untaken
  <1>5. CASE \E q \in Pids : ProcessNext(q)
    <2>1. PICK q \in Pids : ProcessNext(q)
      BY <1>5
    <2>2. UNCHANGED <<call, running, sup>>
      BY <2>1 DEF ProcessNext, supVars
    <2>3. CASE q # p \/ proc'[p] = proc[p]
      <3>1. proc'[p] = proc[p]
        BY <1>0, <2>1, <2>3 DEF ProcessNext, Listen, Exit, HostTypeOK
      <3> QED BY <1>0, <1>1, <2>2, <3>1 DEF Untaken
    <2>4. CASE Listen(p)
      <3> DEFINE new == [proc[p] EXCEPT !.st = "serving"]
      <3>1. proc'[p] = new
        BY <1>0, <2>4 DEF Listen, HostTypeOK
      <3>2. new.st = "serving" /\ new.app = proc[p].app /\ new \in Process
        BY <1>0 DEF Process
      <3> QED BY <1>0, <2>2, <3>1, <3>2, NoneIsNoProcess DEF Stray, Live, Untaken
    <2>5. CASE \E code \in ExitCode : Exit(p, code)
      <3>1. PICK code \in ExitCode : Exit(p, code)
        BY <2>5
      <3> DEFINE new == [[proc[p] EXCEPT !.st = "exited"] EXCEPT !.code = code]
      <3>2. proc'[p] = new
        BY <1>0, <3>1 DEF Exit, HostTypeOK
      <3>3. new.st = "exited"
        BY <1>0 DEF Process
      <3> QED BY <3>2, <3>3
    <2> QED BY <2>1, <2>3, <2>4, <2>5 DEF ProcessNext
  <1>6. CASE LibrarySend
    BY <1>0, <1>1, <1>6 DEF LibrarySend, hostVars, Untaken
  <1>7. CASE Crash
    <2>1. crashes' = crashes + 1
      BY <1>7 DEF Crash
    <2> QED BY <1>0, <2>1
  <1> QED BY <1>2, <1>3, <1>4, <1>5, <1>6, <1>7 DEF Next

\* Whatever requests come and whatever fails, a process that is out of the
\* supervisor's reach comes back into nobody's: it runs on until it exits, or
\* until the server ends.
THEOREM StraysStayAstray == Spec => StrayStaysStray
  <1>1. ASSUME Inv, HandleInv, [Next]_vars
        PROVE  [\A p \in Pids : Stray(p) /\ crashes' = crashes =>
                  Stray(p)' \/ proc'[p].st = "exited"]_vars
    <2> SUFFICES ASSUME Next, NEW p \in Pids, Stray(p), crashes' = crashes
                 PROVE  Stray(p)' \/ proc'[p].st = "exited"
      BY <1>1
    <2> QED BY <1>1, NextKeepsStray
  <1> QED BY <1>1, SpecInvariants, PTL DEF Spec, StrayStaysStray

------------------------------------------------------------------------------
\* A visit is at a port that a row has, or at a process.

LEMMA NextKeepsVisits ==
  ASSUME Inv, ProxyTypeOK, [ProxyNext]_proxyVars
  PROVE  ProxyTypeOK'
  <1>0. StoreTypeOK
    BY DEF Inv, TypeOK
  <1>1. CASE ServerNext \/ UNCHANGED proxyVars
    BY <1>1 DEF ServerNext, proxyVars, ProxyTypeOK, Visit
  <1>2. CASE \E v \in Visitors : VisitorNext(v)
    <2>1. PICK v \in Visitors : VisitorNext(v)
      BY <1>2
    <2>2. ASSUME NEW frame \in Visit, visit' = [visit EXCEPT ![v] = frame]
          PROVE  ProxyTypeOK'
      BY <2>2 DEF ProxyTypeOK
    <2>3. CASE Lookup(v)
      <3>1. PICK n \in Stored :
              visit' = [visit EXCEPT ![v] = [pc |-> "connect", app |-> n, port |-> apps[n].port,
                                             peer |-> None]]
        BY <2>3 DEF Lookup
      <3>2. n \in Names /\ apps[n].port \in Ports
        BY <1>0 DEF Stored, StoreTypeOK, App
      <3> QED BY <2>2, <3>1, <3>2 DEF Visit
    <2>4. CASE Connect(v)
      <3>1. PICK p \in Pids :
              visit' = [visit EXCEPT ![v] = [pc |-> "wait", app |-> visit[v].app, port |-> None,
                                             peer |-> p]]
        BY <2>4 DEF Connect
      <3>2. visit[v].app \in Names
        BY <2>4 DEF Connect, ProxyTypeOK, Visit, IdleVisit
      <3> QED BY <2>2, <3>1, <3>2 DEF Visit
    <2>5. CASE EndVisit(v)
      BY <2>2, <2>5 DEF EndVisit, Visit
    <2> QED BY <2>1, <2>3, <2>4, <2>5 DEF VisitorNext, ConnectFails, Answered, HangUp
  <1> QED BY <1>1, <1>2 DEF ProxyNext

\* The proxy connects to a port that an app has been given, and waits for a
\* process that was spawned.
THEOREM VisitsTyped == ProxySpec => []ProxyTypeOK
  <1>1. ProxyInit => ProxyTypeOK
    BY DEF ProxyInit, ProxyTypeOK, Visit
  <1> QED BY <1>1, NextKeepsVisits, ServerInvariants, PTL DEF ProxySpec

------------------------------------------------------------------------------
\* Ports: on what terms no two apps are given the same one, and a visitor
\* reaches the app that was asked for.  A port is chosen in one step and stored
\* in a later one, and rows are copied and written back at any time, so the
\* invariant is about every copy: PortInv.

\* Ports are handed out one at a time, and none is given back.
Allotted ==
  /\ "delete" \notin ClientOps
  /\ "create" \in ClientOps => \A r, s \in Requests : r = s

\* A copy of the row of an app that is stored, with the port stored for it.
Registered(row) == row = None \/ (apps[row.name] # None /\ apps[row.name].port = row.port)

\* What one step may do to table apps, other than insert an app.
PortsStep == UNCHANGED apps \/ \E row \in App : Registered(row) /\ Save(row)

\* A request that is creating an app has a name and a port that no app has.
Fits(frame) ==
  /\ frame.pc \in {"setup", "insert"} => "create" \in ClientOps
  /\ frame.pc = "setup" => apps[frame.app] = None
  /\ frame.pc = "insert" => apps[frame.row.name] = None /\ frame.row.port \notin UsedPorts
  /\ frame.pc # "insert" => Registered(frame.row)
  /\ frame.pc \notin {"teardown", "deleteRuns", "deleteApp"}

\* A process listens on the port of its app, or on one that a client gave it.
Placed(process) ==
  process = None \/ ( /\ apps[process.app] # None
                     /\ process.port \in {apps[process.app].port} \cup Overrides )

PortInv ==
  /\ UniquePorts
  /\ \A c \in Callers : Registered(call[c].row)
  /\ \A r \in Requests : Fits(req[r])
  /\ Registered(sup.row)
  /\ \A row \in sup.todo : Registered(row)
  /\ \A p \in Pids : Placed(proc[p])

------------------------------------------------------------------------------

\* No operator on rows moves an app to another name or port.
LEMMA RowsStayRegistered ==
  ASSUME NEW app \in App, Registered(app)
  PROVE  /\ \A state \in AppState : Registered(InState(app, state))
         /\ \A hash \in Hashes : Registered(Deployed(app, hash))
         /\ Registered(Started(app))
         /\ \A pid \in Pids : Registered(Running(app, pid))
         /\ \A code \in ExitCode \cup {None} : Registered(Stopped(app, code))
         /\ Registered(Forgotten(app))
         /\ \A code \in ExitCode \cup {None} : Registered(Exited(app, code))
         /\ Registered(AfterExit(app))
  <1>1. apps[app.name] # None /\ apps[app.name].port = app.port
    BY NoneIsNoApp DEF Registered
  <1>2. \A state \in AppState : Registered(InState(app, state))
    BY <1>1 DEF InState, App, Registered
  <1>3. \A hash \in Hashes : Registered(Deployed(app, hash))
    BY <1>1 DEF Deployed, App, Registered
  <1>4. Registered(Started(app))
    BY <1>1 DEF Started, InState, App, Registered
  <1>5. \A pid \in Pids : Registered(Running(app, pid))
    BY <1>1 DEF Running, App, Registered
  <1>6. \A code \in ExitCode \cup {None} : Registered(Stopped(app, code))
    BY <1>1 DEF Stopped, App, Registered
  <1>7. Registered(Forgotten(app))
    BY <1>1 DEF Forgotten, App, Registered
  <1>8. \A code \in ExitCode \cup {None} : Registered(Exited(app, code))
    BY <1>1 DEF Exited, App, Registered
  <1>9. Registered(AfterExit(app))
    <2>1. CASE AfterExit(app) = Retried(app)
      BY <1>1, <2>1 DEF Retried, App, Registered
    <2>2. CASE \E state \in AppState : AfterExit(app) = InState(app, state)
      BY <1>2, <2>2
    <2> QED BY <2>1, <2>2 DEF AfterExit, AppState
  <1> QED BY <1>2, <1>3, <1>4, <1>5, <1>6, <1>7, <1>8, <1>9

LEMMA StoredIsRegistered ==
  ASSUME Inv
  PROVE  \A n \in Names : Registered(apps[n])
  BY DEF Inv, Rooted, Registered

\* Such a step leaves every app its port.
LEMMA PortsStepKeepsPorts ==
  ASSUME StoreTypeOK, PortsStep
  PROVE  \A n \in Names : /\ apps'[n] # None <=> apps[n] # None
                          /\ apps[n] # None => apps'[n].port = apps[n].port
  <1>1. CASE UNCHANGED apps
    BY <1>1
  <1>2. CASE \E row \in App : Registered(row) /\ Save(row)
    BY <1>2, NoneIsNoApp DEF Save, StoreTypeOK, Registered, App
  <1> QED BY <1>1, <1>2 DEF PortsStep

------------------------------------------------------------------------------
\* One part of the program at a time.

\* start::execute saves the row it has read, in another state.
LEMMA StartStepRows ==
  ASSUME Inv, PortInv, NEW c \in Callers, StartStep(c)
  PROVE  /\ PortsStep
         /\ \A d \in Callers : Registered(call'[d].row)
  <1>0. StoreTypeOK /\ StartTypeOK /\ CallsReady /\ call[c] \in Call
        /\ \A d \in Callers : Registered(call[d].row)
    BY DEF Inv, TypeOK, StartTypeOK, PortInv
  <1>1. call[c].pc # "idle" /\ call[c].app \in Names
    BY <1>0 DEF StartStep, StartRead, StartMark, StartSpawn, SpawnFails, StartRecord,
           StartCommit, StartRefused, CallsReady
  <1>2. ASSUME UNCHANGED apps PROVE PortsStep
    BY <1>2 DEF PortsStep
  <1>3. ASSUME NEW pc \in {"failed", "done"}, Return(c, pc)
        PROVE  \A d \in Callers : Registered(call'[d].row)
    <2>1. \A d \in Callers \ {c} : call'[d] = call[d]
      BY <1>0, <1>3 DEF Return, StartTypeOK
    <2>2. call'[c].row = call[c].row \/ call'[c].row = None
      BY <1>0, <1>3 DEF Return, Returned, StartTypeOK, Call, IdleCall
    <2> QED BY <1>0, <2>1, <2>2 DEF Registered
  <1>4. ASSUME NEW pc \in {"mark", "spawn", "commit"}, NEW row \in App, Registered(row),
               Continue(c, pc, row)
        PROVE  \A d \in Callers : Registered(call'[d].row)
    <2>1. \A d \in Callers \ {c} : call'[d] = call[d]
      BY <1>0, <1>4 DEF Continue, StartTypeOK
    <2>2. call'[c].row = row
      BY <1>0, <1>4 DEF Continue, StartTypeOK, Call
    <2> QED BY <1>0, <1>4, <2>1, <2>2
  <1>5. call[c].pc \in {"mark", "spawn", "record", "commit"} =>
          call[c].row \in App /\ Registered(call[c].row)
    BY <1>0 DEF CallsReady
  <1>6. CASE StartRead(c)
    <2>1. UNCHANGED apps
      BY <1>6 DEF StartRead, storeVars
    <2>2. CASE Return(c, "failed")
      BY <1>2, <1>3, <2>1, <2>2
    <2>3. CASE apps[call[c].app] # None /\ Continue(c, "mark", Started(apps[call[c].app]))
      <3>1. apps[call[c].app] \in App /\ Registered(apps[call[c].app])
        BY <1>0, <1>1, <2>3, StoredIsRegistered DEF StoreTypeOK
      <3>2. Started(apps[call[c].app]) \in App /\ Registered(Started(apps[call[c].app]))
        BY <3>1, RowsStayRows, RowsStayRegistered
      <3> QED BY <1>2, <1>4, <2>1, <2>3, <3>2
    <2> QED BY <1>6, <2>2, <2>3 DEF StartRead
  <1>7. CASE StartMark(c)
    <2>1. call[c].row \in App /\ Registered(call[c].row)
      BY <1>5, <1>7 DEF StartMark
    <2> QED BY <1>4, <1>7, <2>1 DEF StartMark, PortsStep
  <1>8. CASE StartSpawn(c)
    <2>1. \A d \in Callers : call'[d].row = call[d].row
      BY <1>0, <1>8 DEF StartSpawn, StartTypeOK, Call
    <2> QED BY <1>0, <1>2, <1>8, <2>1 DEF StartSpawn, storeVars
  <1>9. CASE SpawnFails(c) \/ StartRefused(c)
    BY <1>2, <1>3, <1>9 DEF SpawnFails, StartRefused, storeVars
  <1>10. CASE StartRecord(c)
    <2>1. call[c].row \in App /\ Registered(call[c].row) /\ UNCHANGED apps
      BY <1>5, <1>10 DEF StartRecord, InsertRun
    <2> QED BY <1>2, <1>4, <1>10, <2>1 DEF StartRecord
  <1>11. CASE StartCommit(c)
    <2>1. call[c].row \in App /\ Registered(call[c].row) /\ call[c].child \in Pids
      BY <1>0, <1>5, <1>11 DEF StartCommit, CallsReady
    <2>2. Running(call[c].row, call[c].child) \in App
          /\ Registered(Running(call[c].row, call[c].child))
      BY <2>1, RowsStayRows, RowsStayRegistered
    <2> QED BY <1>3, <1>11, <2>2 DEF StartCommit, PortsStep
  <1> QED BY <1>6, <1>7, <1>8, <1>9, <1>10, <1>11 DEF StartStep

\* The task saves what it has read, restarts counted below the limit only.
LEMMA SupervisorRows ==
  ASSUME Inv, PortInv, SupervisorStep
  PROVE  PortsStep
  <1>0. TaskReady /\ SupervisorTypeOK /\ Registered(sup.row)
    BY DEF Inv, TypeOK, PortInv
  <1>1. CASE UNCHANGED apps
    BY <1>1 DEF PortsStep
  <1>2. CASE RestoreFail
    <2>1. InState(sup.row, "Failed") \in App /\ Registered(InState(sup.row, "Failed"))
      BY <1>0, <1>2, RowsStayRows, RowsStayRegistered DEF RestoreFail, At, TaskReady, AppState
    <2> QED BY <1>1, <1>2, <2>1 DEF RestoreFail, PortsStep, storeVars
  <1>3. CASE StopMark
    <2>1. InState(sup.row, "Stopping") \in App /\ Registered(InState(sup.row, "Stopping"))
      BY <1>0, <1>3, RowsStayRows, RowsStayRegistered DEF StopMark, At, TaskReady, AppState
    <2> QED BY <1>1, <1>3, <2>1 DEF StopMark, PortsStep, storeVars
  <1>4. CASE StopSave
    <2>1. sup.row \in App /\ sup.code \in ExitCode \cup {None}
      BY <1>0, <1>4 DEF StopSave, At, TaskReady, SupervisorTypeOK, Task
    <2>2. /\ Stopped(sup.row, sup.code) \in App /\ Registered(Stopped(sup.row, sup.code))
          /\ Forgotten(sup.row) \in App /\ Registered(Forgotten(sup.row))
      BY <1>0, <2>1, RowsStayRows, RowsStayRegistered
    <2> QED BY <1>1, <1>4, <2>2 DEF StopSave, PortsStep, storeVars
  <1>5. CASE ExitSave
    <2>1. AfterExit(sup.row) \in App /\ Registered(AfterExit(sup.row))
      BY <1>0, <1>5, RowsStayRows, RowsStayRegistered DEF ExitSave, At, TaskReady
    <2> QED BY <1>1, <1>5, <2>1 DEF ExitSave, PortsStep, storeVars
  <1> QED BY <1>1, <1>2, <1>3, <1>4, <1>5 DEF SupervisorStep, Work, Receive, Tick,
        StatementFails, Restore, NextApp, LoopEnds, StartCheck, StartDone, StartFailed,
        StopRead, Kill, CloseRun, ExitClose, RestartRead, HealthRead, ProbePasses, ProbeFails,
        ExitRead, CloseLatestRun, storeVars

\* The row it holds is one it has read, perhaps changed since.
LEMMA SupervisorHolds ==
  ASSUME Inv, PortInv, SupervisorStep
  PROVE  Registered(sup'.row) /\ \A row \in sup'.todo : Registered(row)
  <1>0. /\ StoreTypeOK /\ TaskReady /\ sup \in Task /\ Registered(sup.row)
        /\ \A row \in sup.todo : Registered(row)
        /\ \A n \in Names : Registered(apps[n])
    BY StoredIsRegistered DEF Inv, TypeOK, SupervisorTypeOK, PortInv
  <1> DEFINE Holds == Registered(sup'.row) /\ \A row \in sup'.todo : Registered(row)
  <1>1. ASSUME sup'.row \in {sup.row, None}, sup'.todo \subseteq sup.todo PROVE Holds
    BY <1>0, <1>1 DEF Registered
  <1>2. CASE Finish
    <2>1. sup'.row = None /\ sup'.todo \subseteq sup.todo
      BY <1>2 DEF Finish, Returns, IdleTask
    <2> QED BY <1>1, <2>1
  <1>3. CASE sup' = IdleTask
    BY <1>3 DEF IdleTask, Registered
  <1>4. CASE \E pc \in SupPc : Goto(pc)
    BY <1>0, <1>1, <1>4 DEF Goto, Task
  <1>5. CASE UNCHANGED sup
    BY <1>1, <1>5
  <1>6. CASE Unhealthy
    <2>1. CASE sup' = [sup EXCEPT !.pc = "restart", !.row = None]
      BY <1>0, <1>1, <2>1 DEF Task
    <2> QED BY <1>2, <1>6, <2>1 DEF Unhealthy
  <1>7. sup.app \in Names /\ Row # None => Row \in App /\ Registered(Row)
    BY <1>0 DEF Row, StoreTypeOK
  <1>8. CASE Restore \/ Tick
    <2>1. \A row \in GetByState("Running") : Registered(row)
      BY <1>0 DEF GetByState, Stored
    <2> QED BY <1>0, <1>8, <2>1 DEF Restore, Tick, Task
  <1>9. CASE NextApp
    <2>1. PICK row \in sup.todo :
            IF sup.job = "boot"
              THEN sup' = [sup EXCEPT !.pc = "starting", !.app = row.name, !.row = row,
                                      !.todo = @ \ {row}]
              ELSE sup' = [sup EXCEPT !.pc = "health", !.app = row.name, !.todo = @ \ {row}]
      BY <1>9 DEF NextApp
    <2>2. sup'.row \in {row, sup.row} /\ sup'.todo \subseteq sup.todo
      BY <1>0, <2>1 DEF Task
    <2> QED BY <1>0, <2>1, <2>2
  <1>10. CASE StopRead
    <2>1. CASE Row # None
      <3>1. sup'.row = Row /\ sup'.todo = sup.todo /\ sup.app \in Names
        BY <1>0, <1>10, <2>1 DEF StopRead, At, TaskReady, Task
      <3> QED BY <1>0, <1>7, <2>1, <3>1
    <2> QED BY <1>2, <1>10, <2>1 DEF StopRead
  <1>11. CASE StopMark
    <2>1. CASE sup' = [sup EXCEPT !.pc = "kill", !.row = InState(sup.row, "Stopping")]
      <3>1. Registered(InState(sup.row, "Stopping"))
        BY <1>0, <1>11, RowsStayRegistered DEF StopMark, At, TaskReady, AppState
      <3> QED BY <1>0, <2>1, <3>1 DEF Task
    <2> QED BY <1>2, <1>11, <2>1 DEF StopMark
  <1>12. CASE HealthRead
    <2>1. CASE Checked(Row) /\ sup' = [sup EXCEPT !.pc = "probe", !.row = Row]
      <3>1. sup'.row = Row /\ sup'.todo = sup.todo /\ sup.app \in Names
        BY <1>0, <1>12, <2>1 DEF HealthRead, At, TaskReady, Task
      <3> QED BY <1>0, <1>7, <2>1, <3>1 DEF Checked
    <2> QED BY <1>2, <1>6, <1>12, <2>1 DEF HealthRead
  <1>13. CASE ExitRead
    <2>1. CASE Row # None
      <3>1. sup.app \in Names /\ sup.code \in ExitCode \cup {None}
        BY <1>0, <1>13 DEF ExitRead, At, TaskReady, Task
      <3>2. sup'.row = Exited(Row, sup.code) /\ sup'.todo = sup.todo
        BY <1>0, <1>13, <2>1 DEF ExitRead, Task
      <3>3. Registered(Exited(Row, sup.code))
        BY <1>7, <2>1, <3>1, RowsStayRegistered
      <3> QED BY <1>0, <3>2, <3>3
    <2> QED BY <1>2, <1>13, <2>1 DEF ExitRead
  <1>14. CASE Receive \/ Kill \/ RestartRead
    BY <1>0, <1>1, <1>2, <1>14 DEF Receive, Kill, RestartRead, Task
  <1>15. CASE StopSave
    <2>1. CASE sup' = AfterStop
      BY <1>0, <1>1, <1>2, <2>1 DEF AfterStop, Finish, Task
    <2> QED BY <1>2, <1>15, <2>1 DEF StopSave
  <1> QED BY <1>2, <1>3, <1>4, <1>5, <1>6, <1>8, <1>9, <1>10, <1>11, <1>12, <1>13, <1>14, <1>15
      DEF SupervisorStep, Work, StatementFails, LoopEnds, StartCheck, StartDone, StartFailed,
          RestoreFail, CloseRun, ExitClose, ExitSave, ProbePasses, ProbeFails, SupPc

\* It begins activations, which hold no row yet, and takes their outcome.
LEMMA SupervisorCallRows ==
  ASSUME Inv, PortInv, SupervisorStep
  PROVE  \A c \in Callers : Registered(call'[c].row)
  <1>0. StartTypeOK /\ \A c \in Callers : Registered(call[c].row)
    BY DEF Inv, TypeOK, PortInv
  <1>1. CASE UNCHANGED call
    BY <1>0, <1>1
  <1>2. CASE \E n : CallStart(n)
    BY <1>0, <1>2 DEF CallStart, StartCall, IdleCall, StartTypeOK, Registered
  <1>3. CASE call' = [call EXCEPT ![Super] = IdleCall]
    BY <1>0, <1>3 DEF IdleCall, StartTypeOK, Registered
  <1>4. CASE Return(Super, "failed")
    BY <1>0, <1>4 DEF Return, Returned, StartTypeOK, Call
  <1> QED BY <1>1, <1>2, <1>3, <1>4 DEF SupervisorStep, Work, Receive, Tick, StatementFails,
        Restore, NextApp, LoopEnds, StartCheck, StartDone, StartFailed, RestoreFail, StopRead,
        StopMark, Kill, CloseRun, StopSave, RestartRead, HealthRead, ProbePasses, ProbeFails,
        ExitRead, ExitClose, ExitSave

------------------------------------------------------------------------------

\* A handler saves the row it has read, and perhaps changed, unless it is
\* creating the app.
LEMMA RequestsRows ==
  ASSUME Inv, PortInv, NEW r \in Requests, Begin(r) \/ Proceed(r) \/ Abandon(r), ~CreateSave(r)
  PROVE  PortsStep
  <1>0. RequestsReady /\ Fits(req[r])
    BY DEF Inv, PortInv
  <1>1. CASE UNCHANGED apps
    BY <1>1 DEF PortsStep
  <1>2. CASE \E pc \in {"deployed", "envSave"} : SaveRow(r, pc)
    <2>1. req[r].row \in App /\ Registered(req[r].row)
      BY <1>0, <1>2 DEF SaveRow, ReqAt, RequestsReady, Fits
    <2> QED BY <1>1, <1>2, <2>1 DEF SaveRow, PortsStep, storeVars
  <1>3. ~DeleteRow(r)
    BY <1>0 DEF DeleteRow, ReqAt, Fits
  <1> QED BY <1>1, <1>2, <1>3
      DEF Begin, Proceed, CreateCheck, DeleteCheck, DeployCheck, EnvRead, StopCheck, RestartCheck,
          ApiStart, CreateSetup, CreateSave, DeleteFiles, DeleteHistory, DeleteRuns, DeployWrite,
          DeployBusy, DeploySave, EnvSave, Send, Abandon, storeVars

\* What it holds is as the rows it has read, or for an app to be.
LEMMA RequestsHold ==
  ASSUME Inv, PortInv, Allotted, NEW r \in Requests, Begin(r) \/ Proceed(r) \/ Abandon(r)
  PROVE  /\ Fits(req'[r])
         /\ \A s \in Requests \ {r} : req'[s] = req[s]
  <1>0. /\ StoreTypeOK /\ ApiTypeOK /\ RequestsReady /\ req[r] \in Request
        /\ Fits(req[r])
        /\ \A n \in Stored : apps[n] \in App /\ Registered(apps[n])
    BY StoredIsRegistered DEF Inv, TypeOK, ApiTypeOK, PortInv, Stored, StoreTypeOK
  <1>1. Registered(None)
    BY DEF Registered
  <1>2. ASSUME NEW frame, Fits(frame), Step(r, frame)
        PROVE  Fits(req'[r]) /\ \A s \in Requests \ {r} : req'[s] = req[s]
    BY <1>0, <1>2 DEF Step, ApiTypeOK
  <1>3. CASE UNCHANGED req
    BY <1>0, <1>3
  <1>4. CASE Respond(r)
    <2>1. Fits(IdleRequest)
      BY <1>1 DEF IdleRequest, Fits
    <2> QED BY <1>2, <1>4, <2>1 DEF Respond
  <1>5. CASE CreateCheck(r)
    <2>1. PICK n \in Names :
            /\ apps[n] = None
            /\ Step(r, [IdleRequest EXCEPT !.pc = "setup", !.app = n, !.id = issued + 1])
      BY <1>5 DEF CreateCheck
    <2> DEFINE new == [IdleRequest EXCEPT !.pc = "setup", !.app = n, !.id = issued + 1]
    <2>2. new.pc = "setup" /\ new.app = n /\ new.row = None /\ "create" \in ClientOps
      BY <1>5 DEF CreateCheck, IdleRequest
    <2>3. Fits(new)
      BY <1>1, <2>1, <2>2 DEF Fits
    <2> QED BY <1>2, <2>1, <2>3
  <1>6. CASE CreateSetup(r)
    <2>1. PICK port \in Ports :
            /\ FreePort(port)
            /\ Step(r, [req[r] EXCEPT !.pc = "insert", !.id = None, !.app = None,
                                      !.row = NewApp(req[r].id, req[r].app, port)])
      BY <1>6 DEF CreateSetup
    <2> DEFINE row == NewApp(req[r].id, req[r].app, port)
               new == [req[r] EXCEPT !.pc = "insert", !.id = None, !.app = None, !.row = row]
    <2>2. row.name = req[r].app /\ row.port = port
      BY DEF NewApp
    <2>3. new.pc = "insert" /\ new.row = row
      BY <1>0 DEF Request
    <2>4. apps[req[r].app] = None /\ port \notin UsedPorts /\ "create" \in ClientOps
      BY <1>0, <1>6, <2>1 DEF Fits, FreePort, CreateSetup, ReqAt
    <2>5. Fits(new)
      BY <2>2, <2>3, <2>4 DEF Fits
    <2> QED BY <1>2, <2>1, <2>5
  <1>7. CASE StopCheck(r) \/ RestartCheck(r)
    <2>1. PICK n, kind : Step(r, [IdleRequest EXCEPT !.pc = "send", !.app = n, !.kind = kind])
      BY <1>7 DEF StopCheck, RestartCheck
    <2> DEFINE new == [IdleRequest EXCEPT !.pc = "send", !.app = n, !.kind = kind]
    <2>2. new.pc = "send" /\ new.row = None
      BY DEF IdleRequest
    <2>3. Fits(new)
      BY <1>1, <2>2 DEF Fits
    <2> QED BY <1>2, <2>1, <2>3
  <1>8. ~DeleteCheck(r) /\ ~DeleteFiles(r) /\ ~DeleteHistory(r) /\ ~DeleteRow(r)
    BY <1>0 DEF Allotted, Fits, DeleteCheck, DeleteFiles, DeleteHistory, DeleteRow, ReqAt
  <1>9. CASE DeployCheck(r)
    <2>1. PICK n \in Stored, hash \in Hashes :
            Step(r, [IdleRequest EXCEPT !.pc = "write", !.row = apps[n], !.hash = hash])
      BY <1>9 DEF DeployCheck
    <2> DEFINE new == [IdleRequest EXCEPT !.pc = "write", !.row = apps[n], !.hash = hash]
    <2>2. new.pc = "write" /\ new.row = apps[n]
      BY DEF IdleRequest
    <2>3. Fits(new)
      BY <1>0, <2>2 DEF Fits
    <2> QED BY <1>2, <2>1, <2>3
  <1>10. CASE DeployWrite(r)
    <2>1. req[r].row \in App /\ req[r].hash \in Hashes /\ Registered(req[r].row)
      BY <1>0, <1>10 DEF DeployWrite, ReqAt, RequestsReady, Fits
    <2> DEFINE row == Deployed(req[r].row, req[r].hash)
               new == [req[r] EXCEPT !.pc = "deployed", !.hash = None, !.row = row]
    <2>2. Registered(row)
      BY <2>1, RowsStayRegistered
    <2>3. Step(r, new)
      BY <1>10 DEF DeployWrite
    <2>4. new.pc = "deployed" /\ new.row = row
      BY <1>0 DEF Request
    <2>5. Fits(new)
      BY <2>2, <2>4 DEF Fits
    <2> QED BY <1>2, <2>3, <2>5
  <1>11. CASE EnvRead(r)
    <2>1. PICK n \in Stored, port \in Overrides \cup {None} :
            Step(r, [IdleRequest EXCEPT !.pc = "envSave", !.row = WithEnv(apps[n], port)])
      BY <1>0, <1>11 DEF EnvRead, App
    <2> DEFINE row == WithEnv(apps[n], port)
               new == [IdleRequest EXCEPT !.pc = "envSave", !.row = row]
    <2>2. Registered(row)
      BY <1>0, NoneIsNoApp DEF WithEnv, App, Registered
    <2>3. new.pc = "envSave" /\ new.row = row
      BY DEF IdleRequest
    <2>4. Fits(new)
      BY <2>2, <2>3 DEF Fits
    <2> QED BY <1>2, <2>1, <2>4
  <1> QED BY <1>3, <1>4, <1>5, <1>6, <1>7, <1>8, <1>9, <1>10, <1>11
      DEF Begin, Proceed, ApiStart, CreateSave, DeployBusy, DeploySave, EnvSave,
          SaveRow, Send, Abandon

\* Their activations begin without a row.
LEMMA RequestsCallRows ==
  ASSUME Inv, PortInv, NEW r \in Requests, Begin(r) \/ Proceed(r) \/ Abandon(r)
  PROVE  \A c \in Callers : Registered(call'[c].row)
  <1>0. StartTypeOK /\ \A c \in Callers : Registered(call[c].row)
    BY DEF Inv, TypeOK, PortInv
  <1>1. CASE UNCHANGED call
    BY <1>0, <1>1
  <1>2. CASE ApiStart(r) \/ Abandon(r)
    <2>1. IdleCall.row = None /\ \A n \in Names : StartCall(n).row = None
      BY DEF IdleCall, StartCall
    <2>2. \A c \in Callers : call'[c].row \in {call[c].row, None}
      BY <1>0, <1>2, <2>1 DEF ApiStart, Abandon, StartTypeOK, Stored
    <2> QED BY <1>0, <2>2 DEF Registered
  <1> QED BY <1>1, <1>2
      DEF Begin, Proceed, CreateCheck, DeleteCheck, DeployCheck, EnvRead, StopCheck,
          RestartCheck, CreateSetup, CreateSave, DeleteFiles, DeleteHistory, DeleteRow,
          DeployWrite, DeployBusy, DeploySave, EnvSave, SaveRow, Send

------------------------------------------------------------------------------
\* Processes keep the port that they were spawned with.

\* A process in another state is still that of its app, on its port.
LEMMA SameProcess ==
  ASSUME NEW process \in Process, Placed(process), NEW st, NEW code
  PROVE  /\ Placed([process EXCEPT !.st = st])
         /\ Placed([process EXCEPT !.st = st, !.code = code])
  <1>1. apps[process.app] # None /\ process.port \in {apps[process.app].port} \cup Overrides
    BY NoneIsNoProcess DEF Placed
  <1>2. [process EXCEPT !.st = st].app = process.app
        /\ [process EXCEPT !.st = st].port = process.port
    BY DEF Process
  <1>3. [process EXCEPT !.st = st, !.code = code].app = process.app
        /\ [process EXCEPT !.st = st, !.code = code].port = process.port
    BY DEF Process
  <1> QED BY <1>1, <1>2, <1>3 DEF Placed

\* It is spawned from a row.
LEMMA StartPlaces ==
  ASSUME Inv, PortInv, NEW c \in Callers, StartStep(c)
  PROVE  \A p \in Pids : Placed(proc'[p])
  <1>0. HostTypeOK /\ CallsReady /\ Registered(call[c].row) /\ \A p \in Pids : Placed(proc[p])
    BY DEF Inv, TypeOK, PortInv
  <1>1. CASE StartSpawn(c)
    <2>1. PICK p \in Pids : Spawn(p, call[c].row)
      BY <1>1 DEF StartSpawn
    <2>2. call[c].row \in App /\ call[c].row # None
      BY <1>0, <1>1, NoneIsNoApp DEF StartSpawn, CallsReady
    <2> DEFINE new == [st |-> "booting", app |-> call[c].row.name, port |-> ListenPort(call[c].row),
                       bin |-> disk[call[c].row.name], code |-> None]
    <2>3. Placed(new)
      BY <1>0, <2>2 DEF Registered, Placed, ListenPort, App
    <2>4. \A q \in Pids : proc'[q] = IF q = p THEN new ELSE proc[q]
      BY <1>0, <2>1 DEF Spawn, HostTypeOK
    <2> QED BY <1>0, <2>3, <2>4
  <1>2. CASE ~StartSpawn(c)
    BY <1>0, <1>2 DEF StartStep, StartRead, StartMark, SpawnFails, StartRecord, StartCommit,
       StartRefused, hostVars
  <1> QED BY <1>1, <1>2

LEMMA SupervisorPlaces ==
  ASSUME Inv, PortInv, SupervisorStep
  PROVE  \A p \in Pids : Placed(proc'[p])
  <1>0. HostTypeOK /\ TaskReady /\ \A p \in Pids : Placed(proc[p])
    BY DEF Inv, TypeOK, PortInv
  <1>1. CASE Kill
    <2> DEFINE new == [proc[sup.child] EXCEPT !.st = "reaped", !.code = None]
    <2>1. sup.child \in Pids /\ proc[sup.child] # None
      BY <1>0, <1>1 DEF Kill, At, TaskReady
    <2>2. proc[sup.child] \in Process
      BY <1>0, <2>1 DEF HostTypeOK
    <2>3. Placed(new)
      BY <1>0, <2>1, <2>2, SameProcess
    <2>4. \A q \in Pids : proc'[q] = IF q = sup.child THEN new ELSE proc[q]
      BY <1>0, <1>1, <2>1 DEF Kill, Reap, HostTypeOK
    <2> QED BY <1>0, <2>3, <2>4
  <1>2. CASE ~Kill
    BY <1>0, <1>2 DEF SupervisorStep, Work, StatementFails, Restore, NextApp, LoopEnds, Receive,
       Tick, StartCheck, StartDone, StartFailed, RestoreFail, StopRead, StopMark, CloseRun, StopSave,
       RestartRead, HealthRead, ProbePasses, ProbeFails, ExitRead, ExitClose, ExitSave, hostVars
  <1> QED BY <1>1, <1>2

LEMMA ProcessesPlaced ==
  ASSUME Inv, PortInv, (\E p \in Pids : ProcessNext(p)) \/ Crash
  PROVE  \A p \in Pids : Placed(proc'[p])
  <1>0. /\ HostTypeOK
        /\ \A p \in Pids : Placed(proc[p]) /\ (proc[p] # None => proc[p] \in Process)
    BY DEF Inv, TypeOK, PortInv, HostTypeOK
  <1>1. CASE Crash
    <2>1. PICK survivors : proc' = [p \in Pids |->
                             IF proc[p] = None \/ p \in survivors
                               THEN proc[p] ELSE [proc[p] EXCEPT !.st = "reaped", !.code = None]]
      BY <1>1 DEF Crash
    <2> SUFFICES ASSUME NEW p \in Pids PROVE Placed(proc'[p])
      OBVIOUS
    <2> DEFINE new == [proc[p] EXCEPT !.st = "reaped", !.code = None]
    <2>2. proc[p] # None => Placed(new)
      BY <1>0, SameProcess
    <2>3. proc'[p] = IF proc[p] = None \/ p \in survivors THEN proc[p] ELSE new
      BY <2>1
    <2> QED BY <1>0, <2>2, <2>3
  <1>2. CASE \E p \in Pids : ProcessNext(p)
    <2>1. PICK p \in Pids : ProcessNext(p)
      BY <1>2
    <2>2. CASE Listen(p)
      <3> DEFINE new == [proc[p] EXCEPT !.st = "serving"]
      <3>1. proc[p] # None
        BY <2>2 DEF Listen
      <3>2. Placed(new)
        BY <1>0, <3>1, SameProcess
      <3>3. \A q \in Pids : proc'[q] = IF q = p THEN new ELSE proc[q]
        BY <1>0, <2>2 DEF Listen, HostTypeOK
      <3> QED BY <1>0, <3>2, <3>3
    <2>3. CASE \E code \in ExitCode : Exit(p, code)
      <3>1. PICK code \in ExitCode : Exit(p, code)
        BY <2>3
      <3> DEFINE new == [proc[p] EXCEPT !.st = "exited", !.code = code]
      <3>2. proc[p] # None
        BY <3>1 DEF Exit, Live
      <3>3. Placed(new)
        BY <1>0, <3>2, SameProcess
      <3>4. \A q \in Pids : proc'[q] = IF q = p THEN new ELSE proc[q]
        BY <1>0, <3>1 DEF Exit, HostTypeOK
      <3> QED BY <1>0, <3>3, <3>4
    <2> QED BY <2>1, <2>2, <2>3 DEF ProcessNext
  <1> QED BY <1>1, <1>2

------------------------------------------------------------------------------
\* The whole.

\* What a step leaves every app that is stored.
PortsKept ==
  \A n \in Names : apps[n] # None => apps'[n] # None /\ apps'[n].port = apps[n].port

\* A step that inserts no app, and after which every copy is of a stored one.
LEMMA PortsStepKeepsInv ==
  ASSUME Inv, Inv', PortInv, PortsStep,
         \A c \in Callers : Registered(call'[c].row),
         \A r \in Requests : Fits(req'[r]),
         Registered(sup'.row), \A row \in sup'.todo : Registered(row),
         \A p \in Pids : Placed(proc'[p])
  PROVE  PortInv' /\ PortsKept
  <1>0. StoreTypeOK /\ HostTypeOK' /\ StartTypeOK' /\ sup' \in Task /\ ApiTypeOK' /\ RequestsReady'
    BY DEF Inv, TypeOK, SupervisorTypeOK
  <1>1. \A n \in Names : /\ apps'[n] # None <=> apps[n] # None
                         /\ apps[n] # None => apps'[n].port = apps[n].port
    BY <1>0, PortsStepKeepsPorts
  <1>2. \A row \in App \cup {None} : Registered(row) =>
          row = None \/ (apps'[row.name] # None /\ apps'[row.name].port = row.port)
    BY <1>1 DEF Registered, App
  <1>3. UsedPorts' = UsedPorts /\ UniquePorts'
    BY <1>1 DEF PortInv, UniquePorts, UsedPorts, Stored
  <1>4. \A c \in Callers : Registered(call[c].row)'
    <2>1. \A c \in Callers : call'[c].row \in App \cup {None}
      BY <1>0 DEF StartTypeOK, Call
    <2> QED BY <1>2, <2>1 DEF Registered
  <1>5. Registered(sup.row)' /\ \A row \in sup'.todo : Registered(row)'
    <2>1. sup'.row \in App \cup {None} /\ sup'.todo \subseteq App
      BY <1>0 DEF Task
    <2> QED BY <1>2, <2>1 DEF Registered
  <1>6. ASSUME NEW r \in Requests
        PROVE  Fits(req[r])'
    <2>1. /\ Fits(req'[r])
          /\ req'[r].row \in App \cup {None}
          /\ req'[r].pc = "setup" => req'[r].app \in Names
          /\ req'[r].pc = "insert" => req'[r].row.name \in Names
      BY <1>0 DEF ApiTypeOK, Request, RequestsReady, App
    <2>2. req'[r].pc # "insert" => Registered(req[r].row)'
      BY <1>2, <2>1 DEF Fits, Registered
    <2> QED BY <1>1, <1>3, <2>1, <2>2 DEF Fits
  <1>7. ASSUME NEW p \in Pids
        PROVE  Placed(proc[p])'
    <2>1. proc'[p] # None => proc'[p].app \in Names
      BY <1>0 DEF HostTypeOK, Process
    <2> QED BY <1>1, <2>1 DEF Placed
  <1>8. PortsKept
    BY <1>1 DEF PortsKept
  <1> QED BY <1>3, <1>4, <1>5, <1>6, <1>7, <1>8 DEF PortInv

\* An app is inserted with a port that no app had when it was chosen, and that
\* none can have got since: nobody else is creating one.
LEMMA InsertionKeepsInv ==
  ASSUME Inv, Inv', PortInv, Allotted, NEW r \in Requests, CreateSave(r), UNCHANGED crashes
  PROVE  PortInv' /\ PortsKept
  <1>0. /\ StoreTypeOK /\ ApiTypeOK /\ HostTypeOK /\ StartTypeOK /\ sup \in Task /\ RequestsReady
        /\ Fits(req[r])
    BY DEF Inv, TypeOK, SupervisorTypeOK, PortInv
  <1> DEFINE new == req[r].row
  <1>1. /\ new \in App /\ new.name \in Names /\ new # None
        /\ apps[new.name] = None /\ new.port \notin UsedPorts
        /\ \A s \in Requests : s = r
    BY <1>0, NoneIsNoApp DEF CreateSave, SaveRow, ReqAt, RequestsReady, Fits, Allotted, App
  <1>2. /\ \A n \in Names : apps'[n] = IF n = new.name THEN new ELSE apps[n]
        /\ UNCHANGED <<proc, call, sup>>
        /\ req'[r] = IdleRequest
    BY <1>0, <1>1 DEF CreateSave, SaveRow, Saveable, Save, Respond, Step, hostVars, supVars,
       StoreTypeOK, ApiTypeOK
  <1>3. PortsKept
    BY <1>1, <1>2 DEF PortsKept
  <1>4. \A row \in App \cup {None} : Registered(row) =>
          row = None \/ (apps'[row.name] # None /\ apps'[row.name].port = row.port)
    BY <1>3 DEF Registered, App, PortsKept
  <1>5. UniquePorts'
    <2> SUFFICES ASSUME NEW m \in Names, NEW n \in Names, apps'[m] # None, apps'[n] # None,
                        apps'[m].port = apps'[n].port
                 PROVE  m = n
      BY DEF UniquePorts, Stored
    <2>1. \A k \in Names : apps[k] # None => apps[k].port # new.port
      BY <1>1 DEF UsedPorts, Stored
    <2>2. \A k, l \in Names : apps[k] # None /\ apps[l] # None /\ apps[k].port = apps[l].port => k = l
      BY DEF PortInv, UniquePorts, Stored
    <2> QED BY <1>2, <2>1, <2>2
  <1>6. \A c \in Callers : Registered(call[c].row)'
    <2>1. \A c \in Callers : call[c].row \in App \cup {None} /\ Registered(call[c].row)
      BY <1>0 DEF StartTypeOK, Call, PortInv
    <2> QED BY <1>2, <1>4, <2>1 DEF Registered
  <1>7. Registered(sup.row)' /\ \A row \in sup'.todo : Registered(row)'
    <2>1. /\ sup.row \in App \cup {None} /\ sup.todo \subseteq App
          /\ Registered(sup.row) /\ \A row \in sup.todo : Registered(row)
      BY <1>0 DEF Task, PortInv
    <2> QED BY <1>2, <1>4, <2>1 DEF Registered
  <1>8. \A s \in Requests : Fits(req[s])'
    BY <1>1, <1>2 DEF Fits, IdleRequest, Registered
  <1>9. ASSUME NEW p \in Pids
        PROVE  Placed(proc[p])'
    <2>1. Placed(proc[p]) /\ (proc[p] # None => proc[p].app \in Names)
      BY <1>0 DEF HostTypeOK, Process, PortInv
    <2> QED BY <1>2, <1>3, <2>1 DEF Placed, PortsKept
  <1> QED BY <1>3, <1>5, <1>6, <1>7, <1>8, <1>9 DEF PortInv

LEMMA NextKeepsPorts ==
  ASSUME Inv, Inv', PortInv, Allotted, [Next]_vars
  PROVE  PortInv' /\ PortsKept
  <1>1. ASSUME UNCHANGED storeVars PROVE PortsStep
    BY <1>1 DEF PortsStep, storeVars
  <1>2. ASSUME UNCHANGED sup PROVE Registered(sup'.row) /\ \A row \in sup'.todo : Registered(row)
    BY <1>2 DEF PortInv
  <1>3. ASSUME UNCHANGED req PROVE \A r \in Requests : Fits(req'[r])
    BY <1>3 DEF PortInv
  <1>4. ASSUME UNCHANGED call PROVE \A c \in Callers : Registered(call'[c].row)
    BY <1>4 DEF PortInv
  <1>5. ASSUME UNCHANGED proc PROVE \A p \in Pids : Placed(proc'[p])
    BY <1>5 DEF PortInv
  <1>6. CASE SupervisorNext
    <2>1. SupervisorStep /\ UNCHANGED req
      BY <1>6 DEF SupervisorNext, SupervisorStep
    <2> QED BY <1>3, <2>1, SupervisorRows, SupervisorHolds, SupervisorCallRows, SupervisorPlaces,
          PortsStepKeepsInv
  <1>7. CASE \E c \in Callers : CallNext(c)
    <2>1. PICK c \in Callers : StartStep(c) /\ UNCHANGED <<sup, req>>
      BY <1>7 DEF CallNext, supVars
    <2> QED BY <1>2, <1>3, <2>1, StartStepRows, StartPlaces, PortsStepKeepsInv
  <1>8. CASE \E r \in Requests : RequestNext(r)
    <2>1. PICK r \in Requests : (Begin(r) \/ Proceed(r) \/ Abandon(r)) /\ UNCHANGED crashes
      BY <1>8 DEF RequestNext
    <2>2. CASE CreateSave(r)
      BY <2>1, <2>2, InsertionKeepsInv
    <2>3. CASE ~CreateSave(r)
      <3>1. UNCHANGED <<sup, proc>>
        BY <2>1 DEF Begin, Proceed, CreateCheck, DeleteCheck, DeployCheck, EnvRead,
         StopCheck, RestartCheck, ApiStart, CreateSetup, CreateSave, DeleteFiles, DeleteHistory,
         DeleteRow, DeployWrite, DeployBusy, DeploySave, EnvSave, SaveRow, Send, Abandon, hostVars,
         supVars, RemoveDir, WriteBinary
      <3>2. PortsStep /\ \A c \in Callers : Registered(call'[c].row)
        BY <2>1, <2>3, RequestsRows, RequestsCallRows
      <3>3. \A s \in Requests : Fits(req'[s])
        BY <2>1, RequestsHold DEF PortInv
      <3> QED BY <1>2, <1>5, <3>1, <3>2, <3>3, PortsStepKeepsInv
    <2> QED BY <2>2, <2>3
  <1>9. CASE \E p \in Pids : ProcessNext(p)
    <2>1. UNCHANGED <<storeVars, call, sup, req>>
      BY <1>9 DEF ProcessNext, supVars
    <2> QED BY <1>1, <1>2, <1>3, <1>4, <1>9, <2>1, ProcessesPlaced, PortsStepKeepsInv
  <1>10. CASE LibrarySend \/ UNCHANGED vars
    <2>1. UNCHANGED <<storeVars, call, sup, req, proc>>
      BY <1>10 DEF LibrarySend, vars, supVars, hostVars
    <2> QED BY <1>1, <1>2, <1>3, <1>4, <1>5, <2>1, PortsStepKeepsInv
  <1>11. CASE Crash
    <2>1. /\ UNCHANGED storeVars
          /\ call' = [c \in Callers |-> IdleCall]
          /\ sup' = BootTask
          /\ req' = [r \in Requests |-> IdleRequest]
      BY <1>11 DEF Crash
    <2>2. \A c \in Callers : Registered(call'[c].row)
      BY <2>1 DEF IdleCall, Registered
    <2>3. \A r \in Requests : Fits(req'[r])
      BY <2>1 DEF IdleRequest, Fits, Registered
    <2>4. Registered(sup'.row) /\ \A row \in sup'.todo : Registered(row)
      BY <2>1 DEF BootTask, IdleTask, Registered
    <2> QED BY <1>1, <1>11, <2>1, <2>2, <2>3, <2>4, ProcessesPlaced, PortsStepKeepsInv
  <1> QED BY <1>6, <1>7, <1>8, <1>9, <1>10, <1>11 DEF Next

\* Installed apps were created one after the other.
LEMMA InitPorts ==
  ASSUME Init
  PROVE  PortInv
  <1>1. PICK num \in Numbering, bin \in [Installed -> Hashes], state \in [Installed -> InitStates],
             health \in [Installed -> InitHealth], policy \in [Installed -> InitPolicies],
             env \in [Installed -> Overrides \cup {None}] :
          apps = [n \in Names |->
                    IF n \in Installed
                      THEN InitialRow(n, num[n], bin[n], state[n], health[n], policy[n], env[n])
                      ELSE None]
    BY DEF Init
  <1>2. UniquePorts
    <2> SUFFICES ASSUME NEW m \in Stored, NEW n \in Stored, apps[m].port = apps[n].port
                 PROVE  m = n
      BY DEF UniquePorts
    <2>1. m \in Installed /\ n \in Installed
      BY <1>1 DEF Stored
    <2>2. \A k \in Installed : InitialRow(k, num[k], bin[k], state[k], health[k], policy[k], env[k]).port
                                 = FirstPort + num[k] - 1
      BY DEF InitialRow, NewApp
    <2>3. FirstPort + num[m] - 1 = FirstPort + num[n] - 1
      BY <1>1, <2>1, <2>2, ServerAssumption DEF Stored
    <2>4. num[m] \in Nat /\ num[n] \in Nat
      BY <2>1, ServerAssumption, AppModelAssumption DEF Numbering
    <2>5. num[m] = num[n]
      BY <2>3, <2>4 DEF FirstPort
    <2> QED BY <2>1, <2>5 DEF Numbering
  <1>3. \A c \in Callers : Registered(call[c].row)
    BY DEF Init, IdleCall, Registered
  <1>4. \A r \in Requests : Fits(req[r])
    BY DEF Init, IdleRequest, Fits, Registered
  <1>5. Registered(sup.row) /\ sup.todo = {}
    BY DEF Init, BootTask, IdleTask, Registered
  <1>6. \A p \in Pids : Placed(proc[p])
    BY DEF Init, Placed
  <1> QED BY <1>2, <1>3, <1>4, <1>5, <1>6 DEF PortInv

LEMMA PortInvariance == Allotted => (Spec => [](Inv /\ PortInv))
  <1> SUFFICES ASSUME Allotted PROVE Spec => [](Inv /\ PortInv)
    OBVIOUS
  <1>1. Inv /\ PortInv /\ [Next]_vars => Inv' /\ PortInv'
    BY NextKeepsInv, NextKeepsPorts
  <1> QED BY <1>1, InitInv, InitPorts, PTL DEF Spec

\* Where no app is deleted and creations do not overlap, no two apps are given
\* the same port, although nothing in the table forbids it.
THEOREM PortsUnique == Allotted => (Spec => []UniquePorts)
  BY PortInvariance, PTL DEF PortInv

------------------------------------------------------------------------------
\* The proxy.

LEMMA ProcessesKeepApps ==
  ASSUME Inv, [Next]_vars
  PROVE  \A p \in Pids : proc[p] # None => proc'[p] # None /\ proc'[p].app = proc[p].app
  <1>0. HostTypeOK /\ TaskReady /\ \A p \in Pids : proc[p] # None => proc[p] \in Process
    BY DEF Inv, TypeOK, HostTypeOK
  <1>1. ASSUME NEW process \in Process, NEW st \in {"serving", "exited", "reaped"},
               NEW code \in ExitCode \cup {None}
        PROVE  /\ [process EXCEPT !.st = st] # None
               /\ [process EXCEPT !.st = st].app = process.app
               /\ [process EXCEPT !.st = st, !.code = code] # None
               /\ [process EXCEPT !.st = st, !.code = code].app = process.app
    <2>1. [process EXCEPT !.st = st] \in Process
      BY DEF Process
    <2>2. [process EXCEPT !.st = st, !.code = code] \in Process
      BY DEF Process
    <2>3. [process EXCEPT !.st = st].app = process.app
      BY DEF Process
    <2>4. [process EXCEPT !.st = st, !.code = code].app = process.app
      BY DEF Process
    <2> QED BY <2>1, <2>2, <2>3, <2>4, NoneIsNoProcess
  <1>2. CASE UNCHANGED proc
    BY <1>2
  <1>3. CASE \E c \in Callers : StartSpawn(c)
    <2>1. PICK c \in Callers, p \in Pids : Spawn(p, call[c].row)
      BY <1>3 DEF StartSpawn
    <2>2. proc[p] = None /\ \A q \in Pids \ {p} : proc'[q] = proc[q]
      BY <1>0, <2>1 DEF Spawn, Fresh, HostTypeOK
    <2> QED BY <2>2
  <1>4. CASE Kill
    <2> DEFINE new == [proc[sup.child] EXCEPT !.st = "reaped", !.code = None]
    <2>1. sup.child \in Pids /\ proc[sup.child] \in Process
      BY <1>0, <1>4 DEF Kill, At, TaskReady
    <2>2. new # None /\ new.app = proc[sup.child].app
      BY <1>1, <2>1
    <2>3. \A q \in Pids : proc'[q] = IF q = sup.child THEN new ELSE proc[q]
      BY <1>0, <1>4, <2>1 DEF Kill, Reap, HostTypeOK
    <2> QED BY <2>2, <2>3
  <1>5. CASE Crash
    <2>1. PICK survivors : proc' = [p \in Pids |->
                             IF proc[p] = None \/ p \in survivors
                               THEN proc[p] ELSE [proc[p] EXCEPT !.st = "reaped", !.code = None]]
      BY <1>5 DEF Crash
    <2> SUFFICES ASSUME NEW p \in Pids, proc[p] # None
                 PROVE  proc'[p] # None /\ proc'[p].app = proc[p].app
      OBVIOUS
    <2> DEFINE new == [proc[p] EXCEPT !.st = "reaped", !.code = None]
    <2>2. new # None /\ new.app = proc[p].app
      BY <1>0, <1>1
    <2>3. proc'[p] = IF p \in survivors THEN proc[p] ELSE new
      BY <2>1
    <2> QED BY <2>2, <2>3
  <1>6. CASE \E p \in Pids : Listen(p)
    <2>1. PICK p \in Pids : Listen(p)
      BY <1>6
    <2> DEFINE new == [proc[p] EXCEPT !.st = "serving"]
    <2>2. new # None /\ new.app = proc[p].app
      BY <1>0, <1>1, <2>1 DEF Listen
    <2>3. \A q \in Pids : proc'[q] = IF q = p THEN new ELSE proc[q]
      BY <1>0, <2>1 DEF Listen, HostTypeOK
    <2> QED BY <2>2, <2>3
  <1>7. CASE \E p \in Pids, code \in ExitCode : Exit(p, code)
    <2>1. PICK p \in Pids, code \in ExitCode : Exit(p, code)
      BY <1>7
    <2> DEFINE new == [proc[p] EXCEPT !.st = "exited", !.code = code]
    <2>2. new # None /\ new.app = proc[p].app
      BY <1>0, <1>1, <2>1 DEF Exit, Live
    <2>3. \A q \in Pids : proc'[q] = IF q = p THEN new ELSE proc[q]
      BY <1>0, <2>1 DEF Exit, HostTypeOK
    <2> QED BY <2>2, <2>3
  <1>8. CASE SupervisorNext
    BY <1>2, <1>4, <1>8 DEF SupervisorNext, Work, StatementFails, Restore, NextApp, LoopEnds,
       Receive, Tick, StartCheck, StartDone, StartFailed, RestoreFail, StopRead, StopMark, CloseRun,
       StopSave, RestartRead, HealthRead, ProbePasses, ProbeFails, ExitRead, ExitClose, ExitSave,
       hostVars
  <1>9. CASE \E c \in Callers : CallNext(c)
    <2>1. PICK c \in Callers : StartStep(c)
      BY <1>9 DEF CallNext
    <2> QED BY <1>2, <1>3, <2>1 DEF StartStep, StartRead, StartMark, SpawnFails, StartRecord,
          StartCommit, StartRefused, hostVars
  <1>10. CASE \E r \in Requests : RequestNext(r)
    BY <1>2, <1>10 DEF RequestNext, Begin, Proceed, CreateCheck, DeleteCheck, DeployCheck, EnvRead,
       StopCheck, RestartCheck, ApiStart, CreateSetup, CreateSave, DeleteFiles, DeleteHistory,
       DeleteRow, DeployWrite, DeployBusy, DeploySave, EnvSave, SaveRow, Send, Abandon, hostVars,
       RemoveDir, WriteBinary
  <1>11. CASE (\E p \in Pids : ProcessNext(p)) \/ LibrarySend \/ UNCHANGED vars
    BY <1>2, <1>6, <1>7, <1>11 DEF ProcessNext, LibrarySend, vars, hostVars
  <1> QED BY <1>5, <1>8, <1>9, <1>10, <1>11 DEF Next

\* A visitor has the port of the app that was asked for, and then reaches a
\* process of it.
Guided(v) ==
  /\ visit[v].pc = "connect" =>
       apps[visit[v].app] # None /\ visit[v].port = apps[visit[v].app].port
  /\ visit[v].pc = "wait" => proc[visit[v].peer] # None /\ proc[visit[v].peer].app = visit[v].app

VisitInv == ProxyTypeOK /\ \A v \in Visitors : Guided(v)

\* The row that it reads has the port of its app, and only processes of that
\* app listen there.
LEMMA VisitorStaysGuided ==
  ASSUME Overrides \cap Ports = {}, Inv, PortInv, VisitInv, NEW v \in Visitors, VisitorNext(v)
  PROVE  VisitInv'
  <1>0. /\ StoreTypeOK /\ HostTypeOK
        /\ visit \in [Visitors -> Visit] /\ visit[v] \in Visit
        /\ \A w \in Visitors : Guided(w)
        /\ UNCHANGED <<apps, proc>>
    BY DEF Inv, TypeOK, VisitInv, ProxyTypeOK, VisitorNext, vars, storeVars, hostVars
  <1>1. ASSUME NEW new \in Visit, visit' = [visit EXCEPT ![v] = new],
               new.pc = "connect" => apps[new.app] # None /\ new.port = apps[new.app].port,
               new.pc = "wait" => proc[new.peer] # None /\ proc[new.peer].app = new.app
        PROVE  VisitInv'
    <2>1. ProxyTypeOK'
      BY <1>0, <1>1 DEF ProxyTypeOK
    <2>2. \A w \in Visitors : visit'[w] = IF w = v THEN new ELSE visit[w]
      BY <1>0, <1>1
    <2>3. \A w \in Visitors : Guided(w)'
      BY <1>0, <1>1, <2>2 DEF Guided
    <2> QED BY <2>1, <2>3 DEF VisitInv
  <1>2. CASE Lookup(v)
    <2>1. PICK n \in Stored :
            visit' = [visit EXCEPT ![v] = [pc |-> "connect", app |-> n, port |-> apps[n].port,
                                           peer |-> None]]
      BY <1>2 DEF Lookup
    <2> DEFINE new == [pc |-> "connect", app |-> n, port |-> apps[n].port, peer |-> None]
    <2>2. n \in Names /\ apps[n] # None /\ apps[n].port \in Ports
      BY <1>0 DEF Stored, StoreTypeOK, App
    <2>3. new \in Visit
      BY <2>2 DEF Visit
    <2> QED BY <1>1, <2>1, <2>2, <2>3
  <1>3. CASE Connect(v)
    <2>1. PICK p \in Pids :
            /\ Listens(p, visit[v].port)
            /\ visit' = [visit EXCEPT ![v] = [pc |-> "wait", app |-> visit[v].app, port |-> None,
                                              peer |-> p]]
      BY <1>3 DEF Connect
    <2> DEFINE new == [pc |-> "wait", app |-> visit[v].app, port |-> None, peer |-> p]
    <2>2. visit[v].pc = "connect" /\ visit[v].app \in Names
      BY <1>0, <1>3 DEF Connect, Visit, IdleVisit
    <2>3. new \in Visit
      BY <2>2 DEF Visit
    <2>4. proc[p] # None /\ proc[p].port = visit[v].port /\ proc[p].app \in Names
      BY <1>0, <2>1, NoneIsNoProcess DEF Listens, Live, HostTypeOK, Process
    <2>5. apps[visit[v].app] # None /\ visit[v].port = apps[visit[v].app].port
      BY <1>0, <2>2 DEF Guided
    <2>6. apps[proc[p].app] # None /\ proc[p].port = apps[proc[p].app].port
      <3>1. visit[v].port \in Ports
        BY <1>0, <2>2, <2>5 DEF StoreTypeOK, App
      <3> QED BY <2>4, <3>1 DEF PortInv, Placed
    <2>7. proc[p].app = visit[v].app
      BY <2>2, <2>4, <2>5, <2>6 DEF PortInv, UniquePorts, Stored
    <2> QED BY <1>1, <2>1, <2>3, <2>4, <2>7
  <1>4. CASE EndVisit(v)
    <2>1. IdleVisit \in Visit /\ IdleVisit.pc = "idle"
      BY DEF Visit, IdleVisit
    <2> QED BY <1>1, <1>4, <2>1 DEF EndVisit
  <1> QED BY <1>2, <1>3, <1>4 DEF VisitorNext, ConnectFails, Answered, HangUp

\* Whatever the server does meanwhile, the app keeps its port and the process
\* its app.
LEMMA ServerKeepsGuided ==
  ASSUME Inv, Inv', PortInv, Allotted, VisitInv, ServerNext
  PROVE  VisitInv'
  <1>0. /\ Next /\ visit' \in {visit, [v \in Visitors |-> IdleVisit]}
        /\ PortsKept
        /\ \A p \in Pids : proc[p] # None => proc'[p] # None /\ proc'[p].app = proc[p].app
    BY NextKeepsPorts, ProcessesKeepApps DEF ServerNext
  <1>1. CASE visit' = visit
    <2>1. ASSUME NEW v \in Visitors
          PROVE  Guided(v)'
      <3>1. visit[v] \in Visit /\ Guided(v)
        BY DEF VisitInv, ProxyTypeOK
      <3>2. /\ visit[v].pc = "connect" => visit[v].app \in Names
            /\ visit[v].pc = "wait" => visit[v].peer \in Pids
        BY <3>1 DEF Visit, IdleVisit
      <3> QED BY <1>0, <1>1, <3>1, <3>2 DEF Guided, PortsKept
    <2> QED BY <1>1, <2>1 DEF VisitInv, ProxyTypeOK
  <1>2. CASE visit' = [v \in Visitors |-> IdleVisit]
    <2>1. IdleVisit \in Visit /\ IdleVisit.pc = "idle"
      BY DEF Visit, IdleVisit
    <2> QED BY <1>2, <2>1 DEF VisitInv, ProxyTypeOK, Guided
  <1> QED BY <1>0, <1>1, <1>2

\* Where no app is deleted, creations do not overlap and no client gives an app a
\* PORT that might be another one's, the process that answers a visitor is of the
\* app that was asked for, whatever was deployed, started, restarted or orphaned
\* between reading the row and connecting.
THEOREM VisitorsReachTheirApp ==
    Allotted /\ Overrides \cap Ports = {} => (ProxySpec => []VisitorReachesApp)
  <1> SUFFICES ASSUME Allotted, Overrides \cap Ports = {} PROVE ProxySpec => []VisitorReachesApp
    OBVIOUS
  <1>1. ProxyInit => VisitInv
    BY DEF ProxyInit, VisitInv, ProxyTypeOK, Guided, Visit, IdleVisit
  <1>2. Inv /\ Inv' /\ PortInv /\ VisitInv /\ [ProxyNext]_proxyVars => VisitInv'
    <2> SUFFICES ASSUME Inv, Inv', PortInv, VisitInv, [ProxyNext]_proxyVars
                 PROVE  VisitInv'
      OBVIOUS
    <2>1. CASE UNCHANGED proxyVars
      BY <2>1 DEF proxyVars, vars, storeVars, hostVars, VisitInv, ProxyTypeOK, Guided
    <2> QED BY <2>1, VisitorStaysGuided, ServerKeepsGuided DEF ProxyNext
  <1>3. VisitInv => VisitorReachesApp
    BY DEF VisitInv, Guided, VisitorReachesApp
  <1> QED BY <1>1, <1>2, <1>3, ServerUnderneath, PortInvariance, PTL DEF ProxySpec

==============================================================================
