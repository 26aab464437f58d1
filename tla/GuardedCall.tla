------------------------------ MODULE GuardedCall ------------------------------
(***************************************************************************)
(* What internal/cliexec promises the provider packages about one call of  *)
(* Capture or Stream, with nothing said about how: a call spawns a child,  *)
(* may notice an interrupt while it is in flight, delivers its verdict     *)
(* only once the child is gone, reports ErrInterrupted exactly when the    *)
(* interrupt was noticed by the time of the verdict, and after it returned *)
(* nothing of it is left: no interrupt is noticed, nothing changes.        *)
(* CliExec implements this specification (CliExec!GC).                     *)
(***************************************************************************)
CONSTANT Runs      \* the calls of Capture and Stream made by the host

VARIABLES
  phase,           \* where each call is: idle, running, settled, over
  child,           \* its child process: none, present, gone
  noticed,         \* has the interrupt been noticed by this call?
  outcome          \* what the call returns

vars == <<phase, child, noticed, outcome>>

\* What a call that was not interrupted can report.
Verdicts == {"ok", "fail", "killed", "readErr"}

Init ==
  /\ phase = [r \in Runs |-> "idle"]
  /\ child = [r \in Runs |-> "none"]
  /\ noticed = [r \in Runs |-> FALSE]
  /\ outcome = [r \in Runs |-> "none"]

\* The child could not be started: the call is over before it began.
Refuse(r) ==
  /\ phase[r] = "idle"
  /\ phase' = [phase EXCEPT ![r] = "over"]
  /\ outcome' = [outcome EXCEPT ![r] = "startErr"]
  /\ UNCHANGED <<child, noticed>>

Spawn(r) ==
  /\ phase[r] = "idle"
  /\ phase' = [phase EXCEPT ![r] = "running"]
  /\ child' = [child EXCEPT ![r] = "present"]
  /\ UNCHANGED <<noticed, outcome>>

\* An interrupt can still be noticed after the verdict, but not after the
\* call is over.
Notice(r) ==
  /\ phase[r] \in {"running", "settled"}
  /\ noticed' = [noticed EXCEPT ![r] = TRUE]
  /\ UNCHANGED <<phase, child, outcome>>

ChildGone(r) ==
  /\ phase[r] = "running"
  /\ child[r] = "present"
  /\ child' = [child EXCEPT ![r] = "gone"]
  /\ UNCHANGED <<phase, noticed, outcome>>

Settle(r) ==
  /\ phase[r] = "running"
  /\ child[r] = "gone"
  /\ phase' = [phase EXCEPT ![r] = "settled"]
  /\ \/ /\ noticed[r]
        /\ outcome' = [outcome EXCEPT ![r] = "interrupted"]
     \/ /\ ~noticed[r]
        /\ \E v \in Verdicts : outcome' = [outcome EXCEPT ![r] = v]
  /\ UNCHANGED <<child, noticed>>

Finish(r) ==
  /\ phase[r] = "settled"
  /\ phase' = [phase EXCEPT ![r] = "over"]
  /\ UNCHANGED <<child, noticed, outcome>>

Next ==
  \E r \in Runs :
    \/ Refuse(r) \/ Spawn(r) \/ Notice(r)
    \/ ChildGone(r) \/ Settle(r) \/ Finish(r)

Spec == Init /\ [][Next]_vars
================================================================================
