------------------------------- MODULE Tracking ------------------------------
(***************************************************************************)
(* What the supervisor promises of the processes it looks after, whatever  *)
(* the database says: it holds at most one handle per app; a handle stays  *)
(* until the supervisor decides to end that very process; a process it has *)
(* decided to end is reaped before the supervisor turns to anything else;  *)
(* and a reaped process is never looked after again.  Only the end of the  *)
(* server lets go of a handle in another way.                              *)
(***************************************************************************)
EXTENDS Naturals

CONSTANTS Names, Pids, None

VARIABLES
  handle,  \* the process looked after for each app, or None
  dying,   \* the process being ended, or None
  reaped,  \* the processes waited for
  ends     \* how often the server has ended

vars == <<handle, dying, reaped, ends>>

Init ==
  /\ handle = [n \in Names |-> None]
  /\ dying = None
  /\ reaped = {}
  /\ ends = 0

Adopt(n, p) ==
  /\ handle[n] = None
  /\ dying = None
  /\ p \notin reaped
  /\ \A m \in Names : handle[m] # p
  /\ handle' = [handle EXCEPT ![n] = p]
  /\ UNCHANGED <<dying, reaped, ends>>

Condemn(n) ==
  /\ handle[n] # None
  /\ dying = None
  /\ dying' = handle[n]
  /\ handle' = [handle EXCEPT ![n] = None]
  /\ UNCHANGED <<reaped, ends>>

Bury ==
  /\ dying # None
  /\ dying' = None
  /\ reaped' = reaped \cup {dying}
  /\ UNCHANGED <<handle, ends>>

ServerEnds ==
  /\ ends' = ends + 1
  /\ handle' = [n \in Names |-> None]
  /\ dying' = None
  /\ \E more \in SUBSET Pids : reaped' = reaped \cup more

Next ==
  \/ \E n \in Names, p \in Pids : Adopt(n, p)
  \/ \E n \in Names : Condemn(n)
  \/ Bury
  \/ ServerEnds

Spec == Init /\ [][Next]_vars

==============================================================================
