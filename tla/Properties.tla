----------------------------- MODULE Properties ------------------------------
(***************************************************************************)
(* What makes the server correct, and on which terms.                      *)
(***************************************************************************)
EXTENDS Server

\* The supervisor is in its select! and no request is half way.
Quiet == sup.pc = "idle" /\ \A r \in Requests : Free(r)

\* No two apps share a handle, and a handle is of a process of its own app
\* that nobody has waited for yet: Child::kill on it reaches that process and
\* no other (supervisor.rs handle_stop, start_process).
HandlesAreSound ==
  \A n \in Names : running[n] # None =>
    /\ proc[running[n]] # None
    /\ proc[running[n]].st # "reaped"
    /\ proc[running[n]].app = n
    /\ sup.child # running[n]

\* HashMap::insert in start_process never replaces a handle: the old Child
\* would be dropped, and its process would run on with nobody to stop it.
HandleNeverOverwritten ==
  [][\A n \in Names : running[n] # None => running'[n] \in {running[n], None}]_vars

\* The process that the supervisor has decided to end, and those that somebody
\* has waited for.
Dying == IF sup.pc \in {"stopMark", "kill"} THEN sup.child ELSE None

Reaped == {p \in Pids : proc[p] # None /\ proc[p].st = "reaped"}

Tracked ==
  INSTANCE Tracking WITH handle <- running, dying <- Dying, reaped <- Reaped, ends <- crashes

\* The supervisor does for processes what Tracking says: handles go by Condemn
\* only, Condemn is followed by Bury before anything else happens to them, and
\* nothing but the end of the server lets go of a handle in another way.
ImplementsTracking == Tracked!Spec

\* "What is actually running is the source of truth": between two messages the
\* database says Running of an app exactly when the supervisor holds its
\* process, and names that process.
RowAgreesWhenQuiet ==
  Quiet => \A n \in Stored :
    /\ IsRunning(apps[n]) <=> running[n] # None
    /\ IsRunning(apps[n]) => apps[n].pid = running[n]

\* Start, stop and restart never leave two processes of one app alive.
OneLiveProcess == \A n \in Names : Cardinality(LiveOf(n)) <= 1

\* No process of an app is out of the supervisor's reach.
NoStray ==
  \A p \in Pids : Live(p) =>
    \/ running[proc[p].app] = p
    \/ sup.child = p
    \/ call[Super].child = p

\* delete::execute goes by the state column alone: where it says neither that an
\* app runs nor that it is on its way to or from that, no process of it lives, at
\* any moment of the supervisor's work.
DownMeansDown ==
  \A n \in Stored :
    apps[n].state \notin {"Starting", "Running", "Stopping", "Restarting"} => LiveOf(n) = {}

\* handle_restart stops the app only if its row says Running, and handle_start
\* refuses an app whose handle is held: by then, none is.
RestartNeverRefused ==
  sup.pc = "startCheck" /\ sup.restart => running[sup.app] = None

\* The history is kept right by picking "the latest entry": a closed run is of
\* a process that was reaped, the run of a process the supervisor holds is the
\* latest of its app and open, and as long as the server has not ended, the
\* run of every reaped process is closed by the time the supervisor is done.
HistoryFollowsHandles ==
  /\ \A id \in Ids : \A i \in DOMAIN history[id] :
       LET run == history[id][i] IN
       run.pid # 0 =>
         /\ run.reason # None => proc[run.pid].st = "reaped"
         /\ Quiet /\ crashes = 0 /\ proc[run.pid].st = "reaped" => run.reason # None
  /\ \A n \in Stored : running[n] # None =>
       LET runs == history[apps[n].id] IN
       runs # << >> /\ runs[Len(runs)] = [pid |-> running[n], reason |-> None]

\* handle_stop closes a run at most once, even though starts that bypass the
\* supervisor, deletions and re-creations change the history under it: the
\* entry that update_process_history is about to pick is open.
RunClosedOnce ==
  sup.pc = "closeRun" =>
    LET runs == history[sup.row.id] IN runs # << >> => runs[Len(runs)].reason = None

\* Nobody holds the handle of this process, or is about to.
Stray(p) ==
  /\ Live(p)
  /\ running[proc[p].app] # p
  /\ sup.child # p
  /\ \A c \in Callers : call[c].child # p

\* A process that outlived its server, or whose handle an error return dropped, is
\* out of everybody's reach: whatever is restored, stopped, restarted or saved late
\* under its name, nobody takes it for a child of theirs, and it ends by itself or
\* when the server ends.
StrayStaysStray ==
  [][\A p \in Pids : Stray(p) /\ crashes' = crashes =>
       Stray(p)' \/ proc'[p].st = "exited"]_vars

\* db::apps::save finds its row by the id and nothing else. However old the copy
\* that is saved, whatever was deleted and created since: no row stored under
\* another name has that id, and would be overwritten in its place.
SavesStayHome ==
  [][\A n \in Names : apps'[n] # apps[n] /\ apps'[n] # None =>
       \A m \in Names \ {n} : apps[m] # None => apps[m].id # apps'[n].id]_vars

\* Only creating an app inserts a row.
OnlyCreateInserts ==
  [][\A n \in Names : apps[n] = None /\ apps'[n] # None =>
       apps'[n].state = "Created" /\ \E r \in Requests : req[r].pc = "insert"]_vars

\* No two apps are given the same port.
UniquePorts == \A m, n \in Stored : apps[m].port = apps[n].port => m = n

\* The hash in the database is that of the binary in the directory, once no
\* request is between the two.
DeployedBinaryOnDisk ==
  (\A r \in Requests : Free(r)) =>
    \A n \in Stored : IsDeployed(apps[n]) => apps[n].hash = disk[n]

\* A running app is not deleted.
DeletedAppNotRunning ==
  [][\A n \in Names : apps[n] # None /\ apps'[n] = None => LiveOf(n) = {}]_vars

\* max_restarts bounds the restarts that exits cause, however often exits are
\* notified and whatever fails in between.
RestartsBounded ==
  \A n \in Stored : apps[n].max # None => apps[n].count <= apps[n].max

\* The restarts after an exit that the database counts of app n: one when
\* handle_process_exit goes on to start it again.
RetriedBy(n) ==
  IF sup.pc = "exitSave" /\ sup'.pc = "starting" /\ sup.app = n THEN 1 ELSE 0

\* Every restart after an exit is counted, once, and none is forgotten, whatever
\* fails in between: what max_restarts bounds is their number.
RestartCountKept ==
  [][\A n \in Names : apps[n] # None /\ apps'[n] # None =>
       apps'[n].count = apps[n].count + RetriedBy(n)]_vars

------------------------------------------------------------------------------
\* What makes TypeOK and HandleNeverOverwritten inductive.

\* Every activation has by then what its next steps use: a row that has been
\* read, a child that has been spawned.
CallsReady ==
  \A c \in Callers :
    /\ call[c].pc # "idle" => call[c].app \in Names
    /\ call[c].pc \in {"mark", "spawn", "record", "commit"} => call[c].row \in App
    /\ call[c].pc \in {"record", "commit", "done"} =>
         call[c].child \in Pids /\ proc[call[c].child] # None

TaskReady ==
  /\ sup.pc \notin {"restore", "next", "idle"} => sup.app \in Names
  /\ sup.pc \in {"restoreFail", "probe", "stopMark", "kill", "closeRun", "stopSave", "forget",
                 "exitClose", "exitSave"} => sup.row \in App
  /\ sup.pc = "starting" /\ sup.job = "boot" => sup.row \in App
  /\ sup.pc \in {"stopMark", "kill"} => sup.child \in Pids /\ proc[sup.child] # None

RequestsReady ==
  \A r \in Requests :
    /\ req[r].pc \in {"insert", "write", "deployed", "envSave"} => req[r].row \in App
    /\ req[r].pc = "write" => req[r].hash \in Hashes
    /\ req[r].pc \in {"setup", "teardown", "send"} => req[r].app \in Names
    /\ req[r].pc \in {"setup", "teardown", "deleteRuns", "deleteApp"} => req[r].id \in Ids
    /\ req[r].pc = "send" => req[r].kind \in {"Stop", "Restart"}

\* A handle is of a process that was spawned, a row is stored under its name.
Rooted ==
  /\ \A n \in Names : running[n] # None => proc[running[n]] # None
  /\ \A n \in Names : apps[n] # None => apps[n].name = n

\* While the supervisor starts an app, and for each app that it has still to
\* restore, the map holds nothing: this is what handle_start's look into the
\* map, handle_process_exit's remove and the emptiness of a new map are for.
SlotFree ==
  /\ sup.pc \in {"starting", "exitClose", "exitSave"} => running[sup.app] = None
  /\ sup.pc = "restore" => \A n \in Names : running[n] = None
  /\ sup.job = "boot" =>
       /\ sup.pc \in {"restore", "next", "starting", "restoreFail"}
       /\ \A row \in sup.todo :
            /\ running[row.name] = None
            /\ sup.pc \in {"starting", "restoreFail"} => row.name # sup.app
            /\ \A other \in sup.todo : other.name = row.name => other = row

Inv ==
  /\ TypeOK
  /\ CallsReady
  /\ TaskReady
  /\ RequestsReady
  /\ Rooted
  /\ SlotFree

------------------------------------------------------------------------------

Pending(kind, n) ==
  \E i \in DOMAIN queue : queue[i].kind = kind /\ queue[i].app = n

\* A stop that was accepted ends the process that was running, ...
StopTakesEffect ==
  \A n \in Names, p \in Pids : Pending("Stop", n) /\ running[n] = p ~> ~Live(p)

\* ... and so does a restart.
RestartTakesEffect ==
  \A n \in Names, p \in Pids : Pending("Restart", n) /\ running[n] = p ~> ~Live(p) /\ running[n] # p

\* A request that waits for room in the channel gets it: nothing that the one
\* receiver does waits for a sender, or for the channel itself.
SenderServed ==
  \A r \in Requests : req[r].pc = "send" ~> req[r].pc # "send"

\* The health check finds out that a process is gone.
ExitIsNoticed ==
  \A n \in Names, p \in Pids :
    running[n] = p /\ proc[p].st = "exited" ~> running[n] # p

==============================================================================
