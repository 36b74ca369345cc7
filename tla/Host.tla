-------------------------------- MODULE Host ---------------------------------
(***************************************************************************)
(* The machine under the program: the processes that CmdProvider spawns    *)
(* (src/providers/cmd.rs) and the binary in each app's directory.  A       *)
(* process starts listening on its PORT some time after it is spawned, if  *)
(* ever, and may exit at any time by itself; nobody is told when it does.  *)
(***************************************************************************)
EXTENDS Store

CONSTANT TextBusy  \* does the kernel refuse to write a file that is executing?

ASSUME TextBusyAssumption == TextBusy \in BOOLEAN

VARIABLES
  proc,  \* every process ever spawned, by pid
  disk   \* the binary in each app's directory, or None

hostVars == <<proc, disk>>

Process == [st   : {"booting", "serving", "exited", "reaped"},
            app  : Names,
            port : Ports \cup Overrides,
            bin  : Hashes,
            code : ExitCode \cup {None}]

ASSUME NoneIsNoProcess == None \notin Process

HostTypeOK ==
  /\ proc \in [Pids -> Process \cup {None}]
  /\ disk \in [Names -> Hashes \cup {None}]

------------------------------------------------------------------------------

Live(p) == proc[p] # None /\ proc[p].st \in {"booting", "serving"}

LiveOf(n) == {p \in Pids : Live(p) /\ proc[p].app = n}

Answers(port) == \E p \in Pids : Live(p) /\ proc[p].st = "serving" /\ proc[p].port = port

Fresh(p) == proc[p] = None /\ \A q \in 1 .. (p - 1) : proc[q] # None

\* The variable PORT of a process: the row's port, unless the app's environment,
\* which is set after it, has a PORT of its own.
ListenPort(app) == IF app.env # None THEN app.env ELSE app.port

\* Command::spawn of the app's binary, whatever file is there by now.
Spawn(p, app) ==
  /\ Fresh(p)
  /\ disk[app.name] # None
  /\ proc' = [proc EXCEPT ![p] = [st |-> "booting", app |-> app.name, port |-> ListenPort(app),
                                  bin |-> disk[app.name], code |-> None]]
  /\ UNCHANGED disk

\* The process of app n keeps its executable file busy.
Busy(n) == TextBusy /\ \E p \in LiveOf(n) : proc[p].bin = disk[n]

WriteBinary(n, hash) ==
  /\ ~Busy(n)
  /\ disk' = [disk EXCEPT ![n] = hash]
  /\ UNCHANGED proc

\* teardown: the directory goes, with the binary in it.
RemoveDir(n) ==
  /\ disk' = [disk EXCEPT ![n] = None]
  /\ UNCHANGED proc

\* Child::kill, then Child::wait, which collects the exit status: the code of
\* a process that had already exited, and none of one that is killed.
KillWithoutWait(p) ==
  \* Variant: the signal is sent, and the process may still be there.
  UNCHANGED hostVars

Reap(p) ==
  /\ proc' = [proc EXCEPT ![p].st = "reaped", ![p].code = None]
  /\ UNCHANGED disk

------------------------------------------------------------------------------

\* A process binds its port, if no other process holds it.
Listen(p) ==
  /\ proc[p] # None
  /\ proc[p].st = "booting"
  /\ ~Answers(proc[p].port)
  /\ proc' = [proc EXCEPT ![p].st = "serving"]
  /\ UNCHANGED disk

\* A process ends by itself: it is a zombie until somebody waits for it.
Exit(p, code) ==
  /\ Live(p)
  /\ proc' = [proc EXCEPT ![p].st = "exited", ![p].code = code]
  /\ UNCHANGED disk

==============================================================================
