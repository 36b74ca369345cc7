------------------------------ MODULE AppModel ------------------------------
(***************************************************************************)
(* The record the whole program passes around: one row of table "apps"     *)
(* (src/models.rs).  A row is read from the database, changed in memory by *)
(* the operators below and written back whole, so what matters of it is    *)
(* which fields each operator touches.                                     *)
(***************************************************************************)
EXTENDS Naturals

CONSTANTS
  Names,       \* names of apps, which are also their directories
  LastPort,    \* bound: the ports the allocator may hand out end here
  Hashes,      \* binaries, identified with their SHA-256
  Overrides,   \* values that clients give the variable PORT of an app
  MaxIds,      \* bound: how many rows are ever created
  MaxSpawns,   \* bound: how many processes are ever spawned
  DefaultMax,  \* max_restarts of a new app
  None         \* Option::None

ASSUME AppModelAssumption ==
  /\ LastPort \in Nat
  /\ MaxIds \in Nat
  /\ MaxSpawns \in Nat
  /\ DefaultMax \in Nat
  /\ Overrides \subseteq Nat
  /\ None \notin Nat \cup Hashes \cup Names

Ids  == 1 .. MaxIds
Pids == 1 .. MaxSpawns

\* get_next_available_port counts from here.
FirstPort == 8000

Ports == FirstPort .. LastPort

AppState == {"Created", "Deployed", "Starting", "Running", "Stopping",
             "Stopped", "Failed", "Restarting", "Crashed"}

RestartPolicy == {"Always", "OnFailure", "Never"}

\* An exit status: 1 stands for every non-zero code. A process that a signal
\* ended has no code, which is None.
ExitCode == {0, 1}

\* binary_path is a function of the name, so binary_hash stands for both. Of the
\* environment, env is the variable PORT, the one that decides anything here. A
\* pid 0 is one that an earlier run of the server left in the database.
App == [id     : Ids,
        name   : Names,
        state  : AppState,
        hash   : Hashes \cup {None},
        port   : Ports,
        env    : Overrides \cup {None},
        pid    : Pids \cup {0, None},
        policy : RestartPolicy,
        max    : Nat \cup {None},
        count  : Nat,
        code   : ExitCode \cup {None},
        health : BOOLEAN]

ASSUME NoneIsNoApp == None \notin App

------------------------------------------------------------------------------

\* App::new, with the port that the provider's setup adds.
NewApp(id, name, port) ==
  [id |-> id, name |-> name, state |-> "Created", hash |-> None, port |-> port,
   env |-> None, pid |-> None, policy |-> "OnFailure", max |-> DefaultMax,
   count |-> 0, code |-> None, health |-> TRUE]

IsDeployed(app) == app.hash # None

IsHashChanged(app, hash) == app.hash # hash

IsRunning(app) == app.state = "Running"

\* What set_env does to a row, whether it sets PORT, removes it or leaves it.
WithEnv(app, port) == [app EXCEPT !.env = port]

InState(app, state) == [app EXCEPT !.state = state]

\* Neither touches the pid or the state of the process that may be running.
Deployed(app, hash) == [app EXCEPT !.hash = hash, !.state = "Deployed"]

\* Variant: the state is written together with the pid only.
StartedUnmarked(app) == app

Started(app) == InState(app, "Starting")

\* Variant: a successful start forgets the restarts so far.
RunningAfresh(app, pid) == [app EXCEPT !.pid = pid, !.state = "Running", !.count = 0]

Running(app, pid) == [app EXCEPT !.pid = pid, !.state = "Running"]

\* What handle_stop writes once the child has been reaped with status code.
Stopped(app, code) == [app EXCEPT !.state = "Stopped", !.pid = None, !.code = code]

\* What handle_stop writes when it holds no child: last_exit_code stays.
Forgotten(app) == [app EXCEPT !.state = "Stopped", !.pid = None]

\* What handle_process_exit notes before it decides.
Exited(app, code) == [app EXCEPT !.pid = None, !.code = code]

ShouldRestart(app) ==
  \/ app.policy = "Always"
  \/ app.policy = "OnFailure" /\ app.code \notin {0, None}

\* Variant: one restart too many.
MaxRestartsExceeded(app) == app.max # None /\ app.count > app.max

ReachedMaxRestarts(app) == app.max # None /\ app.count >= app.max

Retried(app) == [app EXCEPT !.state = "Restarting", !.count = @ + 1]

==============================================================================
