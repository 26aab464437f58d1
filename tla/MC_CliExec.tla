------------------------------ MODULE MC_CliExec ------------------------------
(* Small instances of CliExec for TLC; each .cfg picks one. Runs r1 and r2 *)
(* share the host: r1 is a call of Capture, r2 one of Stream.              *)
EXTENDS CliExec, TLC

CONSTANTS r1, r2, h1, h2, p1, p2

\* The kernel may hand out either number first. Used in safety runs only.
PidSymmetry == Permutations(Pids)

(* What the comments and the README say, as far as the code disagrees.     *)

\* exec.go:18 "ErrInterrupted is returned by Capture/Stream when
\* SIGINT/SIGTERM arrived while the child ran". The call loads the flag right
\* after Wait; the guard may not have stored it yet.
InterruptAlwaysReported ==
  \A r \in Runs :
    pc[r] = "returned" /\ heard[r] > 0 => result[r] = "interrupted"

\* README.md:216 "the guard reaps the child's whole tree", and exec.go:99
\* "done closed by stop() after Wait returns ... nothing left to kill". Nothing
\* of the child's group is left when an interrupted call returns. A child that
\* obeys the polite SIGINT ends the grace window for the helpers that do not.
WholeTreeReaped ==
  \A r \in Runs :
    pc[r] = "returned" /\ result[r] = "interrupted" /\ heard[r] > 0 => group[r] = {}
================================================================================
