-------------------------------- MODULE Server -------------------------------
(***************************************************************************)
(* The whole server (src/commands/server_command/serve.rs): one supervisor *)
(* task, the HTTP handlers, the processes they spawn and the database, and *)
(* the end and the next start of the server process itself.                *)
(***************************************************************************)
EXTENDS Api, FiniteSets

CONSTANTS
  Installed,     \* the apps that the database holds to begin with
  InitStates,    \* the states it may hold them in
  InitHealth,    \* whether they have a health check (a migrated row has none)
  InitPolicies,  \* their restart policies (the column, not the API, sets it)
  Library,       \* messages that the library offers and the binary never sends
  MaxCrashes     \* bound: how often the server process ends

ASSUME ServerAssumption ==
  /\ Installed \subseteq Names
  /\ Cardinality(Installed) \in 0 .. MaxIds
  /\ Installed = {} \/ LastPort >= FirstPort + MaxIds - 1
  /\ InitStates \subseteq AppState \ {"Created"}
  /\ InitHealth \subseteq BOOLEAN
  /\ InitPolicies \subseteq RestartPolicy
  /\ Library \subseteq {"Start", "CheckHealth", "ProcessExit"}
  /\ MaxCrashes \in Nat

VARIABLE crashes

vars == <<storeVars, hostVars, call, supVars, req, crashes>>

TypeOK ==
  /\ StoreTypeOK
  /\ HostTypeOK
  /\ StartTypeOK
  /\ SupervisorTypeOK
  /\ ApiTypeOK
  /\ crashes \in 0 .. MaxCrashes

------------------------------------------------------------------------------

\* What an earlier server left of an app: it was created on a port of its own and
\* deployed, may have a PORT in its environment, and its pid is of no use any more.
InitialRow(n, id, hash, state, health, policy, env) ==
  [NewApp(id, n, FirstPort + id - 1) EXCEPT
     !.hash = hash, !.state = state, !.health = health, !.policy = policy, !.env = env,
     !.pid = IF state = "Running" THEN 0 ELSE None]

Numbering == {num \in [Installed -> 1 .. Cardinality(Installed)] :
                \A m, n \in Installed : num[m] = num[n] => m = n}

Init ==
  /\ \E num \in Numbering, bin \in [Installed -> Hashes], state \in [Installed -> InitStates],
        health \in [Installed -> InitHealth], policy \in [Installed -> InitPolicies],
        env \in [Installed -> Overrides \cup {None}] :
       /\ apps = [n \in Names |->
                    IF n \in Installed
                      THEN InitialRow(n, num[n], bin[n], state[n], health[n], policy[n], env[n])
                      ELSE None]
       /\ history = [id \in Ids |->
                       IF \E n \in Installed : num[n] = id /\ state[n] = "Running"
                         THEN << [pid |-> 0, reason |-> None] >> ELSE << >>]
       /\ disk = [n \in Names |-> IF n \in Installed THEN bin[n] ELSE None]
  /\ issued = Cardinality(Installed)
  /\ proc = [p \in Pids |-> None]
  /\ call = [c \in Callers |-> IdleCall]
  /\ running = [n \in Names |-> None]
  /\ queue = << >>
  /\ sup = BootTask
  /\ req = [r \in Requests |-> IdleRequest]
  /\ crashes = 0

\* start_app, check_app_health and notify_process_exit are public, and the
\* handlers of their messages are there; a program that embeds the supervisor
\* may send them at any time.
LibrarySend ==
  /\ Len(queue) < Capacity
  /\ \E kind \in Library, n \in Names :
       \E code \in IF kind = "ProcessExit" THEN ExitCode ELSE {None} :
         queue' = Append(queue, [kind |-> kind, app |-> n, code |-> code])
  /\ UNCHANGED <<storeVars, hostVars, call, running, sup, req, crashes>>

\* The server process ends and is started again. What it held in memory is
\* gone. Its service manager kills the children with it; where it does not,
\* they run on, without a parent.
Crash ==
  /\ "crash" \in Faults
  /\ crashes < MaxCrashes
  /\ crashes' = crashes + 1
  /\ \E survivors \in SUBSET {p \in Pids : Live(p)} :
       /\ "orphans" \in Faults \/ survivors = {}
       /\ proc' = [p \in Pids |-> IF proc[p] = None \/ p \in survivors
                                    THEN proc[p] ELSE [proc[p] EXCEPT !.st = "reaped", !.code = None]]
  /\ call' = [c \in Callers |-> IdleCall]
  /\ running' = [n \in Names |-> None]
  /\ queue' = << >>
  /\ sup' = BootTask
  /\ req' = [r \in Requests |-> IdleRequest]
  /\ UNCHANGED <<storeVars, disk>>

SupervisorNext ==
  /\ Work \/ Receive \/ Tick \/ StatementFails
  /\ UNCHANGED <<req, crashes>>

CallNext(c) ==
  /\ StartStep(c)
  /\ UNCHANGED <<supVars, req, crashes>>

RequestNext(r) ==
  /\ Begin(r) \/ Proceed(r) \/ Abandon(r)
  /\ UNCHANGED crashes

ProcessNext(p) ==
  /\ Listen(p) \/ \E code \in ExitCode : Exit(p, code)
  /\ UNCHANGED <<storeVars, call, supVars, req, crashes>>

Next ==
  \/ SupervisorNext
  \/ \E c \in Callers : CallNext(c)
  \/ \E r \in Requests : RequestNext(r)
  \/ \E p \in Pids : ProcessNext(p)
  \/ LibrarySend
  \/ Crash

Spec == Init /\ [][Next]_vars

\* The runtime polls a task that is ready. select! picks among the branches
\* that are ready at random, so it does not pass over one of them for ever,
\* however often the other is ready too. The channel lets those that wait for
\* room in one after the other, so none of them waits for ever while it is
\* emptied again and again. Clients, processes and failures owe nothing.
Fairness ==
  /\ WF_vars(Work /\ UNCHANGED <<req, crashes>>)
  /\ WF_vars(CallNext(Super))
  /\ SF_vars(Receive /\ UNCHANGED <<req, crashes>>)
  /\ SF_vars(Tick /\ UNCHANGED <<req, crashes>>)
  /\ \A r \in Requests :
       /\ WF_vars(CallNext(r))
       /\ WF_vars(Proceed(r) /\ UNCHANGED crashes)
       /\ SF_vars(Send(r) /\ UNCHANGED crashes)

FairSpec == Spec /\ Fairness

==============================================================================
