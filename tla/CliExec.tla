-------------------------------- MODULE CliExec --------------------------------
(***************************************************************************)
(* internal/cliexec: calls of Capture and Stream that run concurrently in  *)
(* one host process, each with a detached child and an interrupt guard.    *)
(*                                                                         *)
(* Actors: for every call r the goroutine of the call (pc[r]), the guard   *)
(* goroutine (guard[r]) and the child's process tree; the terminal or the  *)
(* operating system, which sends SIGINT/SIGTERM to the host; the kernel,   *)
(* which reuses the number of a process once nothing carries it any more.  *)
(* One action is one step other actors can observe: a channel operation, a *)
(* load or store of an atomic, a system call.                              *)
(***************************************************************************)
EXTENDS Naturals, FiniteSets

CONSTANTS
  Runs,        \* the calls the host makes, each once
  Streams,     \* those of them that are calls of Stream; the rest Capture
  Helpers,     \* names for the processes a child starts (at most this many
               \* of one child are alive together)
  Pids,        \* process numbers the kernel hands to session leaders
  NoPid,       \* "not started yet"
  Unix,        \* proc_unix.go or proc_windows.go
  Escapes,     \* may a helper leave the child's session (setsid)?
  ReadErrors,  \* may a read of the stdout pipe fail with other than EOF?
  MaxSignals   \* bound: signals the host receives

ASSUME ConstAssumption ==
  /\ Streams \subseteq Runs
  /\ NoPid \notin Pids
  /\ Unix \in BOOLEAN
  /\ Escapes \in BOOLEAN
  /\ ReadErrors \in BOOLEAN
  /\ MaxSignals \in Nat

VARIABLES
  \* the call's goroutine
  pc,          \* its next step
  scanErr,     \* reading stdout ended on an error
  result,      \* the error class the call returns
  \* the interrupt guard
  guard,       \* next step of the guard goroutine
  sigs,        \* signals buffered in its channel (make(chan os.Signal, 1))
  registered,  \* is the channel registered with signal.Notify?
  done,        \* has g.done been closed?
  interrupted, \* g.interrupted
  \* the child's process tree
  leader,      \* the direct child: none, alive, zombie (not waited for), reaped
  pid,         \* its number, which is also its session's and group's
  status,      \* how it ended
  group,       \* its live descendants in its process group
  holders,     \* its live descendants that hold the stdout pipe open
  \* the host
  hostUp,      \* is the host process alive?
  nsig,        \* signals received so far
  heard        \* history: signals offered to the call's registered channel
               \* while its child was alive

callVars == <<pc, scanErr, result>>
guardVars == <<guard, sigs, registered, done, interrupted>>
treeVars == <<leader, pid, status, group, holders>>
hostVars == <<hostUp, nsig, heard>>
vars == <<callVars, guardVars, treeVars, hostVars>>

Pcs == {"idle", "started", "reading", "waiting", "copying", "checking",
        "stopNotify", "closeDone", "joining", "returned"}
GuardPcs == {"off", "select", "store", "polite", "grace", "hard", "exited"}
Statuses == {"none", "ok", "fail", "killed"}
Results == {"none", "startErr", "ok", "fail", "killed", "readErr", "interrupted"}

Init ==
  /\ pc = [r \in Runs |-> "idle"]
  /\ scanErr = [r \in Runs |-> FALSE]
  /\ result = [r \in Runs |-> "none"]
  /\ guard = [r \in Runs |-> "off"]
  /\ sigs = [r \in Runs |-> 0]
  /\ registered = [r \in Runs |-> FALSE]
  /\ done = [r \in Runs |-> FALSE]
  /\ interrupted = [r \in Runs |-> FALSE]
  /\ leader = [r \in Runs |-> "none"]
  /\ pid = [r \in Runs |-> NoPid]
  /\ status = [r \in Runs |-> "none"]
  /\ group = [r \in Runs |-> {}]
  /\ holders = [r \in Runs |-> {}]
  /\ hostUp = TRUE
  /\ nsig = 0
  /\ heard = [r \in Runs |-> 0]

\* The goroutine of call r goes from one step to the next.
Goto(r, from, to) ==
  /\ hostUp
  /\ pc[r] = from
  /\ pc' = [pc EXCEPT ![r] = to]

\* The guard goroutine of call r does.
GuardGoto(r, from, to) ==
  /\ hostUp
  /\ guard[r] = from
  /\ guard' = [guard EXCEPT ![r] = to]

\* A number is in use while its leader has not been waited for, or while the
\* group it names has a member.
InUse(p) ==
  \E q \in Runs : pid[q] = p /\ (leader[q] \in {"alive", "zombie"} \/ group[q] # {})

--------------------------------------------------------------------------------
(* The call: Capture and Stream.                                           *)

\* Mutant: the children share a group instead of each leading its own.
StartInSharedGroup(r) ==
  /\ Goto(r, "idle", "started")
  /\ \E p \in Pids : pid' = [pid EXCEPT ![r] = p]
  /\ leader' = [leader EXCEPT ![r] = "alive"]
  /\ UNCHANGED <<scanErr, result, guardVars, status, group, holders, hostVars>>

\* cmd.Start succeeds: the child leads a session of its own.
Start(r) ==
  /\ Goto(r, "idle", "started")
  /\ \E p \in {x \in Pids : ~InUse(x)} : pid' = [pid EXCEPT ![r] = p]
  /\ leader' = [leader EXCEPT ![r] = "alive"]
  /\ UNCHANGED <<scanErr, result, guardVars, status, group, holders, hostVars>>

\* cmd.StdoutPipe or cmd.Start fails: the call returns before any guard exists.
StartFails(r) ==
  /\ Goto(r, "idle", "returned")
  /\ result' = [result EXCEPT ![r] = "startErr"]
  /\ UNCHANGED <<scanErr, guardVars, treeVars, hostVars>>

\* signal.Notify on a fresh channel, then go g.run().
NewInterruptGuard(r) ==
  /\ Goto(r, "started", IF r \in Streams THEN "reading" ELSE "waiting")
  /\ registered' = [registered EXCEPT ![r] = TRUE]
  /\ guard' = [guard EXCEPT ![r] = "select"]
  /\ UNCHANGED <<scanErr, result, sigs, done, interrupted, treeVars, hostVars>>

\* No process has the write end of the stdout pipe open any more.
PipeClosed(r) == leader[r] \in {"zombie", "reaped"} /\ holders[r] = {}

\* Stream: the read loop drains the pipe to EOF (StreamLines models the loop).
ReadEOF(r) ==
  /\ Goto(r, "reading", "waiting")
  /\ PipeClosed(r)
  /\ UNCHANGED <<scanErr, result, guardVars, treeVars, hostVars>>

\* Stream: a read fails and the loop breaks with the child still running.
ReadFails(r) ==
  /\ ReadErrors
  /\ Goto(r, "reading", "waiting")
  /\ scanErr' = [scanErr EXCEPT ![r] = TRUE]
  /\ UNCHANGED <<result, guardVars, treeVars, hostVars>>

\* Mutant: the call does not wait for the child.
ReleaseProcess(r) ==
  /\ Goto(r, "waiting", IF r \in Streams THEN "checking" ELSE "copying")
  /\ UNCHANGED <<scanErr, result, guardVars, treeVars, hostVars>>

\* cmd.Wait, first half: wait(2) on the child. From here on its number is
\* only kept in use by what is left of its group.
WaitProcess(r) ==
  /\ Goto(r, "waiting", IF r \in Streams THEN "checking" ELSE "copying")
  /\ leader[r] = "zombie"
  /\ leader' = [leader EXCEPT ![r] = "reaped"]
  /\ UNCHANGED <<scanErr, result, guardVars, pid, status, group, holders, hostVars>>

\* Mutant: Wait does not wait for the copy of stdout.
AbandonCopy(r) ==
  /\ Goto(r, "copying", "checking")
  /\ UNCHANGED <<scanErr, result, guardVars, treeVars, hostVars>>

\* cmd.Wait, second half: the goroutine that copies stdout into the buffer
\* has seen EOF. Only Capture has one, and no WaitDelay bounds it.
WaitCopy(r) ==
  /\ Goto(r, "copying", "checking")
  /\ PipeClosed(r)
  /\ UNCHANGED <<scanErr, result, guardVars, treeVars, hostVars>>

\* ... or its copy fails, and whatever still writes is left behind.
CopyFails(r) ==
  /\ ReadErrors
  /\ Goto(r, "copying", "checking")
  /\ scanErr' = [scanErr EXCEPT ![r] = TRUE]
  /\ UNCHANGED <<result, guardVars, treeVars, hostVars>>

\* Mutants: the wait error is looked at first; an interrupted child that exits
\* cleanly reports success.
WaitErrorFirst(r) ==
  IF status[r] = "killed" THEN "killed"
  ELSE IF interrupted[r] THEN "interrupted"
  ELSE IF scanErr[r] THEN "readErr"
  ELSE status[r]

CleanExitWins(r) ==
  IF interrupted[r] /\ status[r] # "ok" THEN "interrupted"
  ELSE IF scanErr[r] THEN "readErr"
  ELSE status[r]

\* g.wasInterrupted() and the choice of the error to return. Stream prefers
\* its own read error, cmd.Wait the child's status.
Verdict(r) ==
  IF interrupted[r] THEN "interrupted"
  ELSE IF scanErr[r] /\ (r \in Streams \/ status[r] = "ok") THEN "readErr"
  ELSE status[r]

CheckInterrupted(r) ==
  /\ Goto(r, "checking", "stopNotify")
  /\ result' = [result EXCEPT ![r] = Verdict(r)]
  /\ UNCHANGED <<scanErr, guardVars, treeVars, hostVars>>

\* Mutant: signal.Reset in the place of signal.Stop.
ResetNotify(r) ==
  /\ Goto(r, "stopNotify", "closeDone")
  /\ registered' = [q \in Runs |-> FALSE]
  /\ UNCHANGED <<scanErr, result, guard, sigs, done, interrupted, treeVars, hostVars>>

\* The deferred g.stop(), in its three steps.
StopNotify(r) ==
  /\ Goto(r, "stopNotify", "closeDone")
  /\ registered' = [registered EXCEPT ![r] = FALSE]
  /\ UNCHANGED <<scanErr, result, guard, sigs, done, interrupted, treeVars, hostVars>>

\* Mutant: done is not closed before the guard is joined.
JoinBeforeClose(r) ==
  /\ Goto(r, "closeDone", "joining")
  /\ UNCHANGED <<scanErr, result, guardVars, treeVars, hostVars>>

CloseDone(r) ==
  /\ Goto(r, "closeDone", "joining")
  /\ done' = [done EXCEPT ![r] = TRUE]
  /\ UNCHANGED <<scanErr, result, guard, sigs, registered, interrupted, treeVars, hostVars>>

\* Mutant: stop returns without waiting for the guard goroutine.
LeaveGuard(r) ==
  /\ Goto(r, "joining", "returned")
  /\ UNCHANGED <<scanErr, result, guardVars, treeVars, hostVars>>

JoinGuard(r) ==
  /\ Goto(r, "joining", "returned")
  /\ guard[r] = "exited"
  /\ UNCHANGED <<scanErr, result, guardVars, treeVars, hostVars>>

--------------------------------------------------------------------------------
(* The guard goroutine. When several cases of a select are ready, Go takes *)
(* any of them: each case is a disjunct of its own.                        *)

\* run: a signal has come.
RunSignal(r) ==
  /\ GuardGoto(r, "select", "store")
  /\ sigs[r] > 0
  /\ sigs' = [sigs EXCEPT ![r] = @ - 1]
  /\ UNCHANGED <<callVars, registered, done, interrupted, treeVars, hostVars>>

\* run: the call is over.
RunDone(r) ==
  /\ GuardGoto(r, "select", "exited")
  /\ done[r]
  /\ UNCHANGED <<callVars, sigs, registered, done, interrupted, treeVars, hostVars>>

\* Mutant: the flag is set only where a polite signal can be sent.
StoreIfPolite(r) ==
  /\ GuardGoto(r, "store", "polite")
  /\ interrupted' = [interrupted EXCEPT ![r] = Unix]
  /\ UNCHANGED <<callVars, sigs, registered, done, treeVars, hostVars>>

\* reap: g.interrupted.Store(true).
StoreInterrupted(r) ==
  /\ GuardGoto(r, "store", "polite")
  /\ interrupted' = [interrupted EXCEPT ![r] = TRUE]
  /\ UNCHANGED <<callVars, sigs, registered, done, treeVars, hostVars>>

\* reap: interruptDetached. The polite SIGINT forces nothing: what it reaches
\* may exit, or not, as it always may (ChildExit, HelperExit). On windows no
\* signal is sent and the grace window is skipped.
InterruptDetached(r) ==
  /\ GuardGoto(r, "polite", IF Unix THEN "grace" ELSE "hard")
  /\ UNCHANGED <<callVars, sigs, registered, done, interrupted, treeVars, hostVars>>

\* reap: a second signal cuts the grace window short.
GraceSignal(r) ==
  /\ GuardGoto(r, "grace", "hard")
  /\ sigs[r] > 0
  /\ sigs' = [sigs EXCEPT ![r] = @ - 1]
  /\ UNCHANGED <<callVars, registered, done, interrupted, treeVars, hostVars>>

\* reap: the call was over within the grace window.
GraceDone(r) ==
  /\ GuardGoto(r, "grace", "exited")
  /\ done[r]
  /\ UNCHANGED <<callVars, sigs, registered, done, interrupted, treeVars, hostVars>>

\* reap: gracePeriod has passed.
GraceTimeout(r) ==
  /\ GuardGoto(r, "grace", "hard")
  /\ UNCHANGED <<callVars, sigs, registered, done, interrupted, treeVars, hostVars>>

\* The calls whose leader a hard kill by r's guard reaches. On unix kill(-pid)
\* reaches whatever group has that number now; on windows os.Process.Kill goes
\* through a handle and refuses a process that was waited for.
KillTargets(r) ==
  IF Unix THEN {q \in Runs : pid[q] = pid[r]}
  ELSE {q \in {r} : leader[q] # "reaped"}

\* The calls whose whole group it ends with the leader.
SweptNone(r) == {}    \* mutant: kill(pid) in the place of kill(-pid)

Swept(r) == IF Unix THEN KillTargets(r) ELSE {}

\* reap: killDetached.
KillDetached(r) ==
  /\ GuardGoto(r, "hard", "exited")
  /\ LET dying == {q \in KillTargets(r) : leader[q] = "alive"}
     IN /\ leader' = [q \in Runs |-> IF q \in dying THEN "zombie" ELSE leader[q]]
        /\ status' = [q \in Runs |-> IF q \in dying THEN "killed" ELSE status[q]]
  /\ group' = [q \in Runs |-> IF q \in Swept(r) THEN {} ELSE group[q]]
  /\ holders' = [q \in Runs |-> IF q \in Swept(r) THEN holders[q] \ group[q]
                                ELSE holders[q]]
  /\ UNCHANGED <<callVars, sigs, registered, done, interrupted, pid, hostVars>>

--------------------------------------------------------------------------------
(* The environment: the child's tree and the host's signals.               *)

\* The child exits by itself or because of the polite SIGINT.
ChildExit(r) ==
  /\ leader[r] = "alive"
  /\ leader' = [leader EXCEPT ![r] = "zombie"]
  /\ \E s \in {"ok", "fail"} : status' = [status EXCEPT ![r] = s]
  /\ UNCHANGED <<callVars, guardVars, pid, group, holders, hostVars>>

\* The child starts a helper, which keeps the inherited stdout or not.
Fork(r, h) ==
  /\ leader[r] = "alive"
  /\ h \notin group[r] \cup holders[r]
  /\ group' = [group EXCEPT ![r] = @ \cup {h}]
  /\ \E kept \in {{}, {h}} : holders' = [holders EXCEPT ![r] = @ \cup kept]
  /\ UNCHANGED <<callVars, guardVars, leader, pid, status, hostVars>>

\* A helper calls setsid: signals to the group no longer reach it.
Escape(r, h) ==
  /\ Escapes
  /\ h \in group[r]
  /\ group' = [group EXCEPT ![r] = @ \ {h}]
  /\ UNCHANGED <<callVars, guardVars, leader, pid, status, holders, hostVars>>

HelperExit(r, h) ==
  /\ h \in group[r] \cup holders[r]
  /\ group' = [group EXCEPT ![r] = @ \ {h}]
  /\ holders' = [holders EXCEPT ![r] = @ \ {h}]
  /\ UNCHANGED <<callVars, guardVars, leader, pid, status, hostVars>>

OfferedUnbounded(r) == IF registered[r] THEN sigs[r] + 1 ELSE sigs[r]    \* mutant

\* SIGINT or SIGTERM reaches the host. Go offers it to every registered
\* channel without blocking, so a channel that holds one already drops it;
\* with no channel registered the default action ends the host.
Offered(r) == IF registered[r] THEN 1 ELSE sigs[r]

Signal ==
  /\ hostUp
  /\ nsig < MaxSignals
  /\ nsig' = nsig + 1
  /\ hostUp' = (\E r \in Runs : registered[r])
  /\ sigs' = [r \in Runs |-> Offered(r)]
  /\ heard' = [r \in Runs |-> IF registered[r] /\ leader[r] = "alive"
                              THEN heard[r] + 1 ELSE heard[r]]
  /\ UNCHANGED <<callVars, guard, registered, done, interrupted, treeVars>>

--------------------------------------------------------------------------------
Call(r) ==
  \/ NewInterruptGuard(r) \/ ReadEOF(r)
  \/ WaitProcess(r) \/ WaitCopy(r) \/ CheckInterrupted(r)
  \/ StopNotify(r) \/ CloseDone(r) \/ JoinGuard(r)

Fails(r) == ReadFails(r) \/ CopyFails(r)

Guard(r) ==
  \/ RunSignal(r) \/ RunDone(r) \/ StoreInterrupted(r) \/ InterruptDetached(r)
  \/ GraceSignal(r) \/ GraceDone(r) \/ GraceTimeout(r) \/ KillDetached(r)

\* A detached tree outlives the host.
Tree(r) ==
  \/ ChildExit(r)
  \/ \E h \in Helpers : Fork(r, h) \/ Escape(r, h) \/ HelperExit(r, h)

Next ==
  \/ \E r \in Runs :
       Start(r) \/ StartFails(r) \/ Call(r) \/ Fails(r) \/ Guard(r) \/ Tree(r)
  \/ Signal

Spec == Init /\ [][Next]_vars

\* The Go scheduler runs every goroutine that can run, the grace timer fires.
\* No read need fail. Nothing is assumed of the child, its helpers, the user
\* or the caller.
Fairness == \A r \in Runs : WF_vars(Call(r)) /\ WF_vars(Guard(r))

FairSpec == Spec /\ Fairness

--------------------------------------------------------------------------------
(* Properties.                                                             *)

TypeOK ==
  /\ pc \in [Runs -> Pcs]
  /\ scanErr \in [Runs -> BOOLEAN]
  /\ result \in [Runs -> Results]
  /\ guard \in [Runs -> GuardPcs]
  /\ sigs \in [Runs -> {0, 1}]
  /\ registered \in [Runs -> BOOLEAN]
  /\ done \in [Runs -> BOOLEAN]
  /\ interrupted \in [Runs -> BOOLEAN]
  /\ leader \in [Runs -> {"none", "alive", "zombie", "reaped"}]
  /\ pid \in [Runs -> Pids \cup {NoPid}]
  /\ status \in [Runs -> Statuses]
  /\ group \in [Runs -> SUBSET Helpers]
  /\ holders \in [Runs -> SUBSET Helpers]
  /\ hostUp \in BOOLEAN
  /\ nsig \in 0..MaxSignals
  /\ heard \in [Runs -> 0..nsig]

\* The guard is scoped to one run (exec.go, interruptGuard): once a call that
\* spawned a child has returned, its channel is not registered and its guard
\* goroutine has ended, however signal, timer and exit were ordered. Nothing
\* is left that could signal a process or swallow a ctrl+c.
GuardScoped ==
  \A r \in Runs :
    pc[r] = "returned" /\ result[r] # "startErr" =>
      ~registered[r] /\ guard[r] = "exited"

\* A guard reports what it kills: if a call returns the bare "signal: killed"
\* of its child, without ErrInterrupted, then the kill was another call's,
\* whose guard reached the child through a reused process number.
OwnKillReportsInterrupted ==
  \A r \in Runs :
    result[r] = "killed" =>
      \E q \in Runs \ {r} : pid[q] = pid[r] /\ interrupted[q]

\* A call that returns nil has read everything its child, and every helper
\* of it that wrote to the same pipe, will ever have written: none of them
\* is alive with the pipe open then or later.
OkMeansWholeOutput == \A r \in Runs : result[r] = "ok" => PipeClosed(r)

\* A hard kill that reaches another call's child tree can only come from a
\* guard whose own child has been waited for and has no group left (its
\* number is free for the kernel to reuse), and never happens on windows.
SparesOthers ==
  [][\A r, q \in Runs :
       /\ KillDetached(r)
       /\ q # r
       /\ <<leader[q], group[q], holders[q]>>' # <<leader[q], group[q], holders[q]>>
       => Unix /\ leader[r] = "reaped" /\ group[r] = {}]_vars

\* While any call is between the installation of its guard and the first
\* step of its teardown no signal ends the host, whatever the other calls'
\* guards do: the calls' registrations are independent of each other.
GuardedCallsShieldHost ==
  [][hostUp /\ ~hostUp' =>
       \A r \in Runs :
         pc[r] \in {"idle", "started", "closeDone", "joining", "returned"}]_vars

(* What a call promises, seen from its caller.                             *)
Phase(r) ==
  CASE pc[r] = "idle" -> "idle"
    [] pc[r] = "returned" -> "over"
    [] pc[r] \in {"stopNotify", "closeDone", "joining"} -> "settled"
    [] OTHER -> "running"

Child(r) ==
  CASE leader[r] = "none" -> "none"
    [] leader[r] = "reaped" -> "gone"
    [] OTHER -> "present"

GC == INSTANCE GuardedCall WITH
        phase <- [r \in Runs |-> Phase(r)],
        child <- [r \in Runs |-> Child(r)],
        noticed <- interrupted,
        outcome <- result

\* Every call behaves as GuardedCall says: its verdict comes after its child
\* was waited for, is ErrInterrupted exactly when the guard had recorded the
\* interrupt by then, and nothing happens to a call that is over.
ImplementsGuardedCall == GC!Spec

\* A ctrl+c heard while the child runs ends the call, whatever the child does with
\* the polite SIGINT, provided every holder of the stdout pipe stays in the
\* group (interruptGuard: polite SIGINT, grace, SIGKILL).
SignalEndsCall ==
  \A r \in Runs : heard[r] > 0 ~> pc[r] = "returned" \/ ~hostUp

\* Once the child has exited and nothing holds its stdout open, the call
\* returns and its guard is torn down: stop never waits for ever.
CallReturnsOnceTreeIsGone ==
  \A r \in Runs :
    leader[r] = "zombie" /\ holders[r] = {} ~> pc[r] = "returned" \/ ~hostUp
================================================================================
